---- MODULE Spec2Model ----
(***************************************************************************)
(* Model of the asset_store Neo4j repository (NeoRepository and the        *)
(* functions of repository/neo4j/edge.py, entity_tag.py, edge_tag.py).     *)
(*                                                                         *)
(* The graph store is modelled by what the Cypher statements of the source *)
(* do to it: entity nodes, relationships (edges) and tag nodes.  A         *)
(* relationship has an identity of its own (el) next to the edge_id        *)
(* property the code writes, and a relationship type that is fixed when    *)
(* it is created.  uuid4() is a fresh number, datetime.now() the value of  *)
(* a clock that advances with every call of the repository.                *)
(*                                                                         *)
(* repository/neo4j/entity.py and the payload classes of asset_model are   *)
(* not part of the sources at hand; their operators below follow the       *)
(* written specification (sections 3, 4.1 and 6).                          *)
(***************************************************************************)
EXTENDS Integers, Sequences, FiniteSets, TLC

\* ------------------------------------------------------------------ bounds
\* Longest sequence of repository calls explored.
MaxCalls == 4
\* Largest value of the freshness-carrying field of a payload.
MaxSeen == 2

\* ---------------------------------------------------------------- payloads
NoId == 0
None == [none |-> TRUE]
\* The value of a timestamp property that a stored record does not have
NoTime == -9

Assets == {[atype |-> "FQDN", name |-> "test.example.com"],
           [atype |-> "IPAddress", name |-> "192.168.1.1"]}

\* A relation: its variant, its label, one distinguishing field (the
\* resource-record type of a DNS relation) and one field that carries
\* freshness.  A SimpleRelation has only a label.  The DNS relations are
\* A and AAAA records under "dns_record" and PTR records under "ptr_record".
Relations ==
    [rtype : {"BasicDNSRelation"}, label : {"dns_record"}, key : {1, 28},
     seen : 1..MaxSeen]
    \cup [rtype : {"BasicDNSRelation"}, label : {"ptr_record"}, key : {12},
          seen : 1..MaxSeen]
    \cup [rtype : {"SimpleRelation"}, label : {"dns_record"}, key : {0}, seen : {0}]

PropertyTypes == {"SourceProperty", "SimpleProperty"}
PropertyNames == {"myscript", "other"}
\* A property: its variant, its declared name and one further field.
Properties ==
    {p \in [ptype : PropertyTypes, name : PropertyNames, seen : 1..MaxSeen] :
        p.ptype = "SimpleProperty" => p.name = "myscript"}

\* Edge.label: relation.label.upper()
Upper(label) ==
    CASE label = "dns_record" -> "DNS_RECORD"
      [] label = "ptr_record" -> "PTR_RECORD"
      [] OTHER -> label

\* Relation.equals: content equality, independent of the freshness field.
equals(a, b) == a.rtype = b.rtype /\ a.label = b.label /\ a.key = b.key

\* Relation.is_fresher_than / Property.is_fresher_than
is_fresher_than(a, b) == a.seen > b.seen

\* Relation.override_with: a relation of the receiver's variant that carries
\* the field values of the incoming one.
override_with(old, new) ==
    [rtype |-> old.rtype, label |-> new.label, key |-> new.key, seen |-> new.seen]

\* Property.override_with
prop_override_with(old, new) ==
    [ptype |-> old.ptype, name |-> new.name, seen |-> new.seen]

\* asset_model.valid_relationship: the taxonomy, consumed as a predicate.
valid_relationship(from_type, label, rtype, to_type) ==
    \/ from_type = "FQDN" /\ label = "dns_record" /\ rtype = "BasicDNSRelation"
    \/ from_type = "IPAddress" /\ label = "ptr_record" /\ to_type = "FQDN"

\* ------------------------------------------------------------------- state
VARIABLES
    entities,          \* Entity nodes of the graph
    edges,             \* relationships between Entity nodes
    entity_tags,       \* EntityTag nodes
    edge_tags,         \* EdgeTag nodes
    _events_buffer,    \* NeoRepository._events_buffer
    emit_events,       \* NeoRepository.emit_events
    enforce_taxonomy,  \* NeoRepository.enforce_taxonomy
    clock,             \* datetime.now(), one tick per call
    nextId,            \* the next value of uuid4()
    known_entities,    \* Entity objects the caller holds (id and asset)
    known_edges,       \* ids of the Edge objects the caller holds
    known_tags,        \* ids of the tags the caller holds, by kind
    pending,           \* per caller: the call that has done its lookup
                       \* and has not yet sent its write
    last               \* the last call: its arguments and what it returned

vars == <<entities, edges, entity_tags, edge_tags, _events_buffer, emit_events,
          enforce_taxonomy, clock, nextId, known_entities, known_edges, known_tags,
          pending, last>>

store == <<entities, edges, entity_tags, edge_tags>>

\* The callers that share the store, and a caller with no call in flight
Callers == {"a", "b"}
Idle == [pc |-> "idle"]

NoCall == [op |-> "none", n |-> 0, arg |-> None, ok |-> TRUE, err |-> "",
           outcome |-> "none", old |-> None, ret |-> None]

\* NeoRepository.__init__
Init ==
    /\ entities = {}
    /\ edges = {}
    /\ entity_tags = {}
    /\ edge_tags = {}
    /\ _events_buffer = <<>>
    /\ emit_events \in BOOLEAN
    /\ enforce_taxonomy \in BOOLEAN
    /\ clock = 1
    /\ nextId = 1
    /\ known_entities = {}
    /\ known_edges = {}
    /\ known_tags = [entity |-> {}, edge |-> {}]
    /\ pending = [c \in Callers |-> Idle]
    /\ last = NoCall

\* _emit that assigns the event to the buffer instead of appending it
_emit_Assign(buffer, event) ==
    IF emit_events THEN <<event>> ELSE buffer

\* _emit with its test of emit_events inverted
_emit_Inverted(buffer, event) ==
    IF emit_events THEN buffer ELSE Append(buffer, event)

\* _emit without its test of emit_events
_emit_Always(buffer, event) == Append(buffer, event)

\* NeoRepository._emit
_emit(buffer, event) ==
    IF emit_events THEN Append(buffer, event) ELSE buffer

\* What a call hands back to the action that performs it.
Result(op, arg, outcome, old, ret) ==
    [op |-> op, n |-> clock, arg |-> arg, ok |-> TRUE, err |-> "",
     outcome |-> outcome, old |-> old, ret |-> ret]

Failure(op, arg, err) ==
    [op |-> op, n |-> clock, arg |-> arg, ok |-> FALSE, err |-> err,
     outcome |-> "error", old |-> None, ret |-> None]

Event(type, rec, old) == [type |-> type, rec |-> rec, old |-> old]

\* ---------------------------------------------------------------- entities
\* The Entity object built from an Entity node.
EntityOf(n) ==
    [id |-> n.entity_id, created_at |-> n.created_at,
     updated_at |-> n.updated_at, asset |-> n.asset]

\* find_entity_by_id: the stored entity, or the failure
\* "the entity with ID ... was not found".
find_entity_by_id(id) ==
    IF \E n \in entities : n.entity_id = id
    THEN [ok |-> TRUE, err |-> "",
          ret |-> EntityOf(CHOOSE n \in entities : n.entity_id = id)]
    ELSE [ok |-> FALSE, err |-> "NotFound", ret |-> None]

\* find_entities_by_content that filters on "updated since now"
find_entities_by_content_Since(asset) ==
    {EntityOf(n) : n \in {m \in entities : m.asset = asset /\ m.updated_at >= clock}}

\* find_entities_by_content without a since filter
find_entities_by_content(asset) ==
    {EntityOf(n) : n \in {m \in entities : m.asset = asset}}

\* upsert_entity that reports a resubmitted asset as an update
create_entity_Updated(op, asset, found, now, id) ==
    IF found = None
    THEN LET n == [entity_id |-> id, created_at |-> now, updated_at |-> now,
                   asset |-> asset]
         IN [entities |-> entities \cup {n},
             events |-> _emit(_events_buffer, Event("EntityInserted", EntityOf(n), None)),
             last |-> Result(op, asset, "inserted", None, EntityOf(n))]
    ELSE LET n == [entity_id |-> found.id, created_at |-> found.created_at,
                   updated_at |-> now, asset |-> found.asset]
         IN [entities |-> {IF m.entity_id = found.id THEN n ELSE m : m \in entities},
             events |-> _emit(_events_buffer, Event("EntityUpdated", EntityOf(n), found)),
             last |-> Result(op, asset, "updated", found, EntityOf(n))]

\* Section 4.1, upsert_entity: insert when no entity has this content,
\* otherwise advance updated_at of the stored one.
create_entity(op, asset, found, now, id) ==
    IF found = None
    THEN LET n == [entity_id |-> id, created_at |-> now, updated_at |-> now,
                   asset |-> asset]
         IN [entities |-> entities \cup {n},
             events |-> _emit(_events_buffer, Event("EntityInserted", EntityOf(n), None)),
             last |-> Result(op, asset, "inserted", None, EntityOf(n))]
    ELSE LET n == [entity_id |-> found.id, created_at |-> found.created_at,
                   updated_at |-> now, asset |-> found.asset]
         IN [entities |-> {IF m.entity_id = found.id THEN n ELSE m : m \in entities},
             events |-> _emit(_events_buffer, Event("EntityUntouched", EntityOf(n), None)),
             last |-> Result(op, asset, "untouched", found, EntityOf(n))]

FoundEntities(asset) ==
    IF find_entities_by_content(asset) = {} THEN {None}
    ELSE find_entities_by_content(asset)

\* NeoRepository.create_asset
CreateAsset ==
    /\ clock <= MaxCalls
    /\ \E asset \in Assets : \E found \in FoundEntities(asset) :
        LET r == create_entity("create_asset", asset, found, clock, nextId) IN
        /\ entities' = r.entities
        /\ _events_buffer' = r.events
        /\ last' = r.last
        /\ known_entities' = known_entities \cup {[id |-> r.last.ret.id, asset |-> asset]}
        /\ clock' = clock + 1
        /\ nextId' = IF r.last.outcome = "inserted" THEN nextId + 1 ELSE nextId
        /\ UNCHANGED <<edges, entity_tags, edge_tags, emit_events,
                       enforce_taxonomy, pending, known_tags, known_edges>>

\* NeoRepository.create_entity with an Entity that carries no id
CreateEntity ==
    /\ clock <= MaxCalls
    /\ \E asset \in Assets : \E found \in FoundEntities(asset) :
        LET r == create_entity("create_entity", asset, found, clock, nextId) IN
        /\ entities' = r.entities
        /\ _events_buffer' = r.events
        /\ last' = r.last
        /\ known_entities' = known_entities \cup {[id |-> r.last.ret.id, asset |-> asset]}
        /\ clock' = clock + 1
        /\ nextId' = IF r.last.outcome = "inserted" THEN nextId + 1 ELSE nextId
        /\ UNCHANGED <<edges, entity_tags, edge_tags, emit_events,
                       enforce_taxonomy, pending, known_tags, known_edges>>

\* NeoRepository.delete_entity: returns the entity as it was and removes it
\* with the edges and tags that hang on it.
DeleteEntity ==
    /\ clock <= MaxCalls
    /\ \E h \in known_entities :
        LET f == find_entity_by_id(h.id)
            gone == {r \in edges : r.from = h.id \/ r.to = h.id}
        IN
        /\ IF f.ok
           THEN /\ entities' = {n \in entities : n.entity_id # h.id}
                /\ edges' = edges \ gone
                /\ entity_tags' = {t \in entity_tags : t.entity_id # h.id}
                /\ edge_tags' = {t \in edge_tags :
                                   \A r \in gone : r.edge_id # t.edge_id}
                /\ _events_buffer' =
                       _emit(_events_buffer, Event("EntityDeleted", f.ret, None))
                /\ last' = Result("delete_entity", h.id, "deleted", f.ret, f.ret)
           ELSE /\ UNCHANGED <<entities, edges, entity_tags, edge_tags,
                               _events_buffer>>
                /\ last' = Failure("delete_entity", h.id, f.err)
        /\ clock' = clock + 1
        /\ UNCHANGED <<emit_events, enforce_taxonomy, pending, known_tags, nextId, known_entities,
                       known_edges>>

\* ------------------------------------------------------------------- edges
\* str.casefold on the labels and relationship types in use
Casefold(s) ==
    CASE s \in {"dns_record", "DNS_RECORD", "Dns_Record"} -> "dns_record"
      [] s \in {"ptr_record", "PTR_RECORD"} -> "ptr_record"
      [] OTHER -> s

\* Edge.to_dict and the CREATE statement of create_edge: the relationship
\* written for an Edge object; its type is the upper-cased label.
RelationshipOf(e, el) ==
    [el |-> el, type |-> Upper(e.rel.label), edge_id |-> e.id,
     created_at |-> e.created_at, updated_at |-> e.updated_at,
     from |-> e.from, to |-> e.to, rel |-> e.rel]

\* _relationship_to_edge: the Edge object read back from a relationship
_relationship_to_edge(r, from_id, to_id) ==
    [id |-> r.edge_id, created_at |-> r.created_at, updated_at |-> r.updated_at,
     from |-> from_id, to |-> to_id, rel |-> r.rel]

\* The checks at the head of _relationship_to_edge: it raises "Unable to
\* extract ..." when the relationship has no edge_id, or no created_at or
\* updated_at of the temporal type.
extractable(r) ==
    /\ r.edge_id # NoId
    /\ r.created_at # NoTime
    /\ r.updated_at # NoTime

\* find_edge_by_id: Result.single hands back the first record that matches
\* the edge_id, whichever the store lists first.
find_edge_by_id(id) ==
    LET rs == {r \in edges : r.edge_id = id} IN
    IF rs = {}
    THEN {[ok |-> FALSE, err |-> "NotFound", ret |-> None]}
    ELSE {IF ~find_entity_by_id(r.from).ok \/ ~find_entity_by_id(r.to).ok
          THEN [ok |-> FALSE, err |-> "NotFound", ret |-> None]
          ELSE IF ~extractable(r)
          THEN [ok |-> FALSE, err |-> "DecodeError", ret |-> None]
          ELSE [ok |-> TRUE, err |-> "",
                ret |-> _relationship_to_edge(r, r.from, r.to)] : r \in rs}

\* outgoing_edges(entity, since, *labels); since = 0 stands for None.  An
\* exception of _relationship_to_edge is caught and the record skipped
\* ("except Exception: continue").
outgoing_edges(entity_id, since, labels) ==
    LET rs == {r \in edges :
                 /\ r.from = entity_id
                 /\ since # 0 => r.updated_at >= since
                 /\ labels # {} =>
                      \E l \in labels : Casefold(l) = Casefold(r.type)}
    IN IF \E r \in rs : ~find_entity_by_id(r.to).ok
       THEN [ok |-> FALSE, err |-> "NotFound", ret |-> {}]
       ELSE [ok |-> TRUE, err |-> "",
             ret |-> {_relationship_to_edge(r, entity_id, r.to) :
                        r \in {x \in rs : extractable(x)}}]

\* incoming_edges(entity, since, *labels).  An exception of
\* _relationship_to_edge is re-raised.
incoming_edges(entity_id, since, labels) ==
    LET rs == {r \in edges :
                 /\ r.to = entity_id
                 /\ since # 0 => r.updated_at >= since
                 /\ labels # {} =>
                      \E l \in labels : Casefold(l) = Casefold(r.type)}
    IN IF \E r \in rs : ~find_entity_by_id(r.from).ok
       THEN [ok |-> FALSE, err |-> "NotFound", ret |-> {}]
       ELSE IF \E r \in rs : ~extractable(r)
       THEN [ok |-> FALSE, err |-> "DecodeError", ret |-> {}]
       ELSE [ok |-> TRUE, err |-> "",
             ret |-> {_relationship_to_edge(r, r.from, entity_id) : r \in rs}]

\* The duplicate test without the comparison of the to_entity ids
is_duplicate_AnyTarget(edge, out) == equals(edge.rel, out.rel)

\* The duplicate test with the relations compared field by field, the
\* freshness field included
is_duplicate_SameSeen(edge, out) ==
    edge.to.id = out.to /\ edge.rel = out.rel

\* The test of the duplicate scan in _find_existing_edge
is_duplicate(edge, out) ==
    edge.to.id = out.to /\ equals(edge.rel, out.rel)

\* _find_existing_edge: every outcome the lookup can have.  With an id the
\* edge is looked up directly and a failure propagates; without one the
\* outgoing edges of from_entity are scanned in the order the store lists
\* them, and a failure of the scan counts as "no duplicate".
_find_existing_edge(edge) ==
    IF edge.id # NoId
    THEN {[ok |-> f.ok, err |-> f.err, found |-> f.ret] : f \in find_edge_by_id(edge.id)}
    ELSE LET outs == outgoing_edges(edge.from.id, 0, {})
             dups == {out \in outs.ret : is_duplicate(edge, out)}
         IN IF ~outs.ok \/ dups = {}
            THEN {[ok |-> TRUE, err |-> "", found |-> None]}
            ELSE {[ok |-> TRUE, err |-> "", found |-> out] : out \in dups}

\* The relationships the SET statement of create_edge writes: every
\* relationship of the new edge's type between the two entities.
UpdateTargets(new_edge) ==
    {r \in edges : /\ r.from = new_edge.from
                   /\ r.to = new_edge.to
                   /\ r.type = Upper(new_edge.rel.label)}

\* The taxonomy gate with the test of enforce_taxonomy inverted
taxonomy_rejects_Inverted(edge) ==
    ~enforce_taxonomy /\ ~valid_relationship(edge.from.asset.atype, edge.rel.label,
                                             edge.rel.rtype, edge.to.asset.atype)

\* The taxonomy gate without the test of enforce_taxonomy
taxonomy_rejects_Always(edge) ==
    ~valid_relationship(edge.from.asset.atype, edge.rel.label,
                        edge.rel.rtype, edge.to.asset.atype)

\* The taxonomy gate at the head of create_edge
taxonomy_rejects(edge) ==
    enforce_taxonomy /\ ~valid_relationship(edge.from.asset.atype, edge.rel.label,
                                            edge.rel.rtype, edge.to.asset.atype)

\* The freshness test with its two relations exchanged
has_new_data_Swapped(edge, old_edge) == is_fresher_than(old_edge.rel, edge.rel)

\* The test "the edge already exists and has new data" of create_edge
has_new_data(edge, old_edge) == is_fresher_than(edge.rel, old_edge.rel)

\* The test of the write's result with every result taken for a record
record_is_None_Never(records) == FALSE

\* "if record is None" after a write: Result.single hands back None when
\* the statement matched nothing and so returned no record.
record_is_None(records) == records = {}

\* create_edge(edge) given the outcome f of _find_existing_edge
create_edge(op, edge, f, now, id) ==
    IF taxonomy_rejects(edge)
    THEN [edges |-> edges, events |-> _events_buffer,
          last |-> Failure(op, edge, "TaxonomyViolation")]
    ELSE IF ~f.ok
    THEN [edges |-> edges, events |-> _events_buffer,
          last |-> Failure(op, edge, f.err)]
    ELSE IF f.found = None
    THEN LET new_edge == [id |-> id, created_at |-> now, updated_at |-> now,
                          from |-> edge.from.id, to |-> edge.to.id, rel |-> edge.rel]
             \* the CREATE follows two MATCHes on the end entities
             created == IF find_entity_by_id(edge.from.id).ok
                           /\ find_entity_by_id(edge.to.id).ok
                        THEN {RelationshipOf(new_edge, id)} ELSE {}
         IN IF record_is_None(created)
            THEN [edges |-> edges, events |-> _events_buffer,
                  last |-> Failure(op, edge, "NoRecords")]
            ELSE [edges |-> edges \cup created,
                  events |-> _emit(_events_buffer, Event("EdgeInserted", new_edge, None)),
                  last |-> Result(op, edge, "inserted", None, new_edge)]
    ELSE IF has_new_data(edge, f.found)
    THEN LET old_edge == f.found
             new_edge == [id |-> old_edge.id, created_at |-> old_edge.created_at,
                          updated_at |-> now, from |-> old_edge.from,
                          to |-> old_edge.to,
                          rel |-> override_with(old_edge.rel, edge.rel)]
             targets == UpdateTargets(new_edge)
         IN IF record_is_None(targets)
            THEN [edges |-> edges, events |-> _events_buffer,
                  last |-> Failure(op, edge, "NoRecords")]
            ELSE [edges |-> (edges \ targets)
                              \cup {[RelationshipOf(new_edge, r.el)
                                       EXCEPT !.type = r.type] : r \in targets},
                  events |-> _emit(_events_buffer,
                                   Event("EdgeUpdated", new_edge, old_edge)),
                  last |-> Result(op, edge, "updated", old_edge, new_edge)]
    ELSE [edges |-> edges,
          events |-> _emit(_events_buffer, Event("EdgeUntouched", f.found, None)),
          last |-> Result(op, edge, "untouched", f.found, f.found)]

\* The Edge objects a caller can submit
EdgeArgs(ids) ==
    [id : ids, from : known_entities, to : known_entities, rel : Relations]

DoCreateEdge(op, edge) ==
    \E f \in _find_existing_edge(edge) :
        LET r == create_edge(op, edge, f, clock, nextId) IN
        /\ edges' = r.edges
        /\ _events_buffer' = r.events
        /\ last' = r.last
        /\ known_edges' = IF r.last.ok THEN known_edges \cup {r.last.ret.id}
                          ELSE known_edges
        /\ clock' = clock + 1
        /\ nextId' = IF r.last.outcome = "inserted" THEN nextId + 1 ELSE nextId
        /\ UNCHANGED <<entities, entity_tags, edge_tags, emit_events,
                       enforce_taxonomy, pending, known_tags, known_entities>>

\* NeoRepository.create_relation: create_edge of an Edge without an id
CreateRelation ==
    /\ clock <= MaxCalls
    /\ \E edge \in EdgeArgs({NoId}) : DoCreateEdge("create_relation", edge)

\* create_relation as the tests call it: the relation of their fixture,
\* BasicDNSRelation("dns_record", rrtype=1)
FixtureRelation ==
    [rtype |-> "BasicDNSRelation", label |-> "dns_record", key |-> 1, seen |-> 1]

CreateFixtureRelation ==
    /\ clock <= MaxCalls
    /\ \E from \in known_entities : \E to \in known_entities :
           DoCreateEdge("create_relation",
                        [id |-> NoId, from |-> from, to |-> to, rel |-> FixtureRelation])

\* NeoRepository.create_edge with an Edge that carries an id
CreateEdge ==
    /\ clock <= MaxCalls
    /\ \E edge \in EdgeArgs(known_edges) : DoCreateEdge("create_edge", edge)

\* delete_edge: the edge is looked up, then the DELETE statement is sent.
\* Its text is not an f-string, so the doubled braces reach the store as
\* written and the statement is rejected: the call fails after the lookup.
DeleteEdge ==
    /\ clock <= MaxCalls
    /\ \E id \in known_edges : \E f \in find_edge_by_id(id) :
        /\ last' = IF f.ok THEN Failure("delete_edge", id, "CypherSyntaxError")
                   ELSE Failure("delete_edge", id, f.err)
        /\ clock' = clock + 1
        /\ UNCHANGED <<entities, edges, entity_tags, edge_tags, _events_buffer,
                       emit_events, enforce_taxonomy, pending, known_tags, nextId, known_entities,
                       known_edges>>

\* flush_events that hands the buffer back without replacing it
flush_events_Keep(buffer) == [events |-> buffer, buffer |-> buffer]

\* NeoRepository.flush_events: the buffer is returned and replaced by a
\* new empty list.
flush_events(buffer) == [events |-> buffer, buffer |-> <<>>]

FlushEvents ==
    /\ clock <= MaxCalls
    /\ LET r == flush_events(_events_buffer) IN
        /\ _events_buffer' = r.buffer
        /\ last' = Result("flush_events", None, "read", None, [events |-> r.events])
    /\ clock' = clock + 1
    /\ UNCHANGED <<entities, edges, entity_tags, edge_tags, emit_events,
                   enforce_taxonomy, pending, known_tags, nextId, known_entities, known_edges>>

\* -------------------------------------------------------------------- tags
\* EntityTag.to_dict / EdgeTag.to_dict and the CREATE statement: the node
\* written for a tag; nlabel is the label that names the property type.
EntityTagNode(t, nlabel) ==
    [tag_id |-> t.id, entity_id |-> t.owner, created_at |-> t.created_at,
     updated_at |-> t.updated_at, nlabel |-> nlabel, prop |-> t.prop]

EdgeTagNode(t, nlabel) ==
    [tag_id |-> t.id, edge_id |-> t.owner, created_at |-> t.created_at,
     updated_at |-> t.updated_at, nlabel |-> nlabel, prop |-> t.prop]

\* _node_to_entity_tag: the owner is looked up with find_entity_by_id
_node_to_entity_tag(node) ==
    IF ~find_entity_by_id(node.entity_id).ok
    THEN [ok |-> FALSE, err |-> "NotFound", ret |-> None]
    ELSE [ok |-> TRUE, err |-> "",
          ret |-> [id |-> node.tag_id, owner |-> node.entity_id,
                   created_at |-> node.created_at,
                   updated_at |-> node.updated_at, prop |-> node.prop]]

\* _node_to_edge_tag: the owner is looked up with find_edge_by_id
_node_to_edge_tag(node) ==
    IF \A f \in find_edge_by_id(node.edge_id) : ~f.ok
    THEN [ok |-> FALSE, err |-> "NotFound", ret |-> None]
    ELSE [ok |-> TRUE, err |-> "",
          ret |-> [id |-> node.tag_id, owner |-> node.edge_id,
                   created_at |-> node.created_at,
                   updated_at |-> node.updated_at, prop |-> node.prop]]

\* The WHERE clause built from tag.to_dict() instead: it also compares the
\* tag_id, which the submitted tag does not have yet.
ContentMatches_TagDict(node, prop, since) ==
    /\ node.nlabel = prop.ptype
    /\ node.prop.name = prop.name
    /\ node.prop.seen = prop.seen
    /\ node.tag_id = NoId
    /\ since # 0 => node.updated_at >= since

\* The WHERE clause built from prop.to_dict(): every declared field of the
\* stored property equals that of prop, on a node labelled with its type.
ContentMatches(node, prop, since) ==
    /\ node.nlabel = prop.ptype
    /\ node.prop.name = prop.name
    /\ node.prop.seen = prop.seen
    /\ since # 0 => node.updated_at >= since

\* find_entity_tags_by_content(prop, since): tags of any owner
find_entity_tags_by_content(prop, since) ==
    LET nodes == {n \in entity_tags : ContentMatches(n, prop, since)} IN
    IF \E n \in nodes : ~_node_to_entity_tag(n).ok
    THEN [ok |-> FALSE, err |-> "NotFound", ret |-> {}]
    ELSE [ok |-> TRUE, err |-> "", ret |-> {_node_to_entity_tag(n).ret : n \in nodes}]

\* find_edge_tags_by_content(prop, since)
find_edge_tags_by_content(prop, since) ==
    LET nodes == {n \in edge_tags : ContentMatches(n, prop, since)} IN
    IF \E n \in nodes : ~_node_to_edge_tag(n).ok
    THEN [ok |-> FALSE, err |-> "NotFound", ret |-> {}]
    ELSE [ok |-> TRUE, err |-> "", ret |-> {_node_to_edge_tag(n).ret : n \in nodes}]

\* find_entity_tag_by_id: execute_query is called without a result
\* transformer and so returns the (records, summary, keys) tuple; the tuple
\* is never None and has no get(), so the call fails for every id.
find_entity_tag_by_id(id) ==
    [ok |-> FALSE, err |-> "AttributeError", ret |-> None]

\* find_edge_tag_by_id: as find_entity_tag_by_id
find_edge_tag_by_id(id) ==
    [ok |-> FALSE, err |-> "AttributeError", ret |-> None]

\* _find_existing_entity_tag: with an id, find_entity_tag_by_id; without,
\* the first tag find_entity_tags_by_content lists, whoever owns it.
_find_existing_entity_tag(tag) ==
    IF tag.id # NoId
    THEN LET f == find_entity_tag_by_id(tag.id)
         IN {[ok |-> f.ok, err |-> f.err, found |-> f.ret]}
    ELSE LET findings == find_entity_tags_by_content(tag.prop, 0) IN
         IF ~findings.ok
         THEN {[ok |-> FALSE, err |-> findings.err, found |-> None]}
         ELSE IF findings.ret = {}
         THEN {[ok |-> TRUE, err |-> "", found |-> None]}
         ELSE {[ok |-> TRUE, err |-> "", found |-> t] : t \in findings.ret}

\* _find_existing_edge_tag
_find_existing_edge_tag(tag) ==
    IF tag.id # NoId
    THEN LET f == find_edge_tag_by_id(tag.id)
         IN {[ok |-> f.ok, err |-> f.err, found |-> f.ret]}
    ELSE LET findings == find_edge_tags_by_content(tag.prop, 0) IN
         IF ~findings.ok
         THEN {[ok |-> FALSE, err |-> findings.err, found |-> None]}
         ELSE IF findings.ret = {}
         THEN {[ok |-> TRUE, err |-> "", found |-> None]}
         ELSE {[ok |-> TRUE, err |-> "", found |-> t] : t \in findings.ret}

\* create_entity_tag(tag) given the outcome f of _find_existing_entity_tag
create_entity_tag(op, tag, f, now, id) ==
    IF ~f.ok
    THEN [tags |-> entity_tags, events |-> _events_buffer,
          last |-> Failure(op, tag, f.err)]
    ELSE IF f.found = None
    THEN LET new_tag == [id |-> id, owner |-> tag.owner, created_at |-> now,
                         updated_at |-> now, prop |-> tag.prop]
         IN [tags |-> entity_tags \cup {EntityTagNode(new_tag, tag.prop.ptype)},
             events |-> _emit(_events_buffer, Event("EntityTagInserted", new_tag, None)),
             last |-> Result(op, tag, "inserted", None, new_tag)]
    ELSE IF is_fresher_than(tag.prop, f.found.prop)
    THEN LET old_tag == f.found
             new_tag == [id |-> old_tag.id, owner |-> old_tag.owner,
                         created_at |-> old_tag.created_at, updated_at |-> now,
                         prop |-> prop_override_with(old_tag.prop, tag.prop)]
         IN [tags |-> {IF n.tag_id = new_tag.id
                       THEN EntityTagNode(new_tag, n.nlabel) ELSE n : n \in entity_tags},
             events |-> _emit(_events_buffer,
                              Event("EntityTagUpdated", new_tag, old_tag)),
             last |-> Result(op, tag, "updated", old_tag, new_tag)]
    ELSE [tags |-> entity_tags,
          events |-> _emit(_events_buffer, Event("EntityTagUntouched", f.found, None)),
          last |-> Result(op, tag, "untouched", f.found, f.found)]

\* create_edge_tag(tag) given the outcome f of _find_existing_edge_tag
create_edge_tag(op, tag, f, now, id) ==
    IF ~f.ok
    THEN [tags |-> edge_tags, events |-> _events_buffer,
          last |-> Failure(op, tag, f.err)]
    ELSE IF f.found = None
    THEN LET new_tag == [id |-> id, owner |-> tag.owner, created_at |-> now,
                         updated_at |-> now, prop |-> tag.prop]
         IN [tags |-> edge_tags \cup {EdgeTagNode(new_tag, tag.prop.ptype)},
             events |-> _emit(_events_buffer, Event("EdgeTagInserted", new_tag, None)),
             last |-> Result(op, tag, "inserted", None, new_tag)]
    ELSE IF is_fresher_than(tag.prop, f.found.prop)
    THEN LET old_tag == f.found
             new_tag == [id |-> old_tag.id, owner |-> old_tag.owner,
                         created_at |-> old_tag.created_at, updated_at |-> now,
                         prop |-> prop_override_with(old_tag.prop, tag.prop)]
         IN IF record_is_None({n \in edge_tags : n.tag_id = new_tag.id})
            THEN [tags |-> edge_tags, events |-> _events_buffer,
                  last |-> Failure(op, tag, "NoRecords")]
            ELSE [tags |-> {IF n.tag_id = new_tag.id
                            THEN EdgeTagNode(new_tag, n.nlabel) ELSE n : n \in edge_tags},
                  events |-> _emit(_events_buffer,
                                   Event("EdgeTagUpdated", new_tag, old_tag)),
                  last |-> Result(op, tag, "updated", old_tag, new_tag)]
    ELSE [tags |-> edge_tags,
          events |-> _emit(_events_buffer, Event("EdgeTagUntouched", f.found, None)),
          last |-> Result(op, tag, "untouched", f.found, f.found)]

DoCreateEntityTag(op, tag) ==
    \E f \in _find_existing_entity_tag(tag) :
        LET r == create_entity_tag(op, tag, f, clock, nextId) IN
        /\ entity_tags' = r.tags
        /\ _events_buffer' = r.events
        /\ last' = r.last
        /\ known_tags' = IF r.last.ok
                         THEN [known_tags EXCEPT !.entity = @ \cup {r.last.ret.id}]
                         ELSE known_tags
        /\ clock' = clock + 1
        /\ nextId' = IF r.last.outcome = "inserted" THEN nextId + 1 ELSE nextId
        /\ UNCHANGED <<entities, edges, edge_tags, emit_events, enforce_taxonomy, pending,
                       known_entities, known_edges>>

DoCreateEdgeTag(op, tag) ==
    \E f \in _find_existing_edge_tag(tag) :
        LET r == create_edge_tag(op, tag, f, clock, nextId) IN
        /\ edge_tags' = r.tags
        /\ _events_buffer' = r.events
        /\ last' = r.last
        /\ known_tags' = IF r.last.ok
                         THEN [known_tags EXCEPT !.edge = @ \cup {r.last.ret.id}]
                         ELSE known_tags
        /\ clock' = clock + 1
        /\ nextId' = IF r.last.outcome = "inserted" THEN nextId + 1 ELSE nextId
        /\ UNCHANGED <<entities, edges, entity_tags, emit_events, enforce_taxonomy, pending,
                       known_entities, known_edges>>

\* NeoRepository.create_entity_property: a tag without an id
CreateEntityProperty ==
    /\ clock <= MaxCalls
    /\ \E h \in known_entities : \E prop \in Properties :
           DoCreateEntityTag("create_entity_property",
                             [id |-> NoId, owner |-> h.id, prop |-> prop])

\* NeoRepository.create_entity_tag with a tag that carries an id
CreateEntityTag ==
    /\ clock <= MaxCalls
    /\ \E id \in known_tags.entity : \E h \in known_entities : \E prop \in Properties :
           DoCreateEntityTag("create_entity_tag",
                             [id |-> id, owner |-> h.id, prop |-> prop])

\* NeoRepository.create_edge_property
CreateEdgeProperty ==
    /\ clock <= MaxCalls
    /\ \E e \in known_edges : \E prop \in Properties :
           DoCreateEdgeTag("create_edge_property",
                           [id |-> NoId, owner |-> e, prop |-> prop])

\* NeoRepository.create_edge_tag with a tag that carries an id
CreateEdgeTag ==
    /\ clock <= MaxCalls
    /\ \E id \in known_tags.edge : \E e \in known_edges : \E prop \in Properties :
           DoCreateEdgeTag("create_edge_tag",
                           [id |-> id, owner |-> e, prop |-> prop])

\* delete_entity_tag: the tag is looked up with find_entity_tag_by_id first,
\* and the failure of that lookup ends the call.
DeleteEntityTag ==
    /\ clock <= MaxCalls
    /\ \E id \in known_tags.entity :
        LET f == find_entity_tag_by_id(id) IN
        /\ IF f.ok
           THEN /\ entity_tags' = {n \in entity_tags : n.tag_id # id}
                /\ _events_buffer' =
                       _emit(_events_buffer, Event("EntityTagDeleted", f.ret, None))
                /\ last' = Result("delete_entity_tag", id, "deleted", f.ret, f.ret)
           ELSE /\ UNCHANGED <<entity_tags, _events_buffer>>
                /\ last' = Failure("delete_entity_tag", id, f.err)
        /\ clock' = clock + 1
        /\ UNCHANGED <<entities, edges, edge_tags, emit_events, enforce_taxonomy, pending,
                       nextId, known_entities, known_edges, known_tags>>

\* delete_edge_tag
DeleteEdgeTag ==
    /\ clock <= MaxCalls
    /\ \E id \in known_tags.edge :
        LET f == find_edge_tag_by_id(id) IN
        /\ IF f.ok
           THEN /\ edge_tags' = {n \in edge_tags : n.tag_id # id}
                /\ _events_buffer' =
                       _emit(_events_buffer, Event("EdgeTagDeleted", f.ret, None))
                /\ last' = Result("delete_edge_tag", id, "deleted", f.ret, f.ret)
           ELSE /\ UNCHANGED <<edge_tags, _events_buffer>>
                /\ last' = Failure("delete_edge_tag", id, f.err)
        /\ clock' = clock + 1
        /\ UNCHANGED <<entities, edges, entity_tags, emit_events, enforce_taxonomy, pending,
                       nextId, known_entities, known_edges, known_tags>>

\* ------------------------------------------------------------------- finds
\* The ids a caller asks for: every id handed out so far and one that was
\* never stored.
FindIds == 1..nextId

\* A read-only call: it records what it returned and changes nothing else.
DoFind(op, arg, f) ==
    /\ last' = IF f.ok THEN Result(op, arg, "read", None, f.ret)
               ELSE Failure(op, arg, f.err)
    /\ clock' = clock + 1
    /\ UNCHANGED <<entities, edges, entity_tags, edge_tags, _events_buffer,
                   emit_events, enforce_taxonomy, pending, nextId, known_entities,
                   known_edges, known_tags>>

\* NeoRepository.find_entity_by_id
FindEntityById ==
    /\ clock <= MaxCalls
    /\ \E id \in FindIds : DoFind("find_entity_by_id", id, find_entity_by_id(id))

\* The Edge object built at the end of _relationship_to_edge, with the
\* Entity objects it is given for its two ends.
Edge(e, from_entity, to_entity) ==
    [id |-> e.id, created_at |-> e.created_at, updated_at |-> e.updated_at,
     rel |-> e.rel, from_entity |-> from_entity, to_entity |-> to_entity]

\* find_edge_by_id hands _relationship_to_edge the two entities it looked
\* up with find_entity_by_id.
find_edge_by_id_Edge(f) ==
    IF f.ok
    THEN [f EXCEPT !.ret = Edge(f.ret, find_entity_by_id(f.ret.from).ret,
                                find_entity_by_id(f.ret.to).ret)]
    ELSE f

\* NeoRepository.find_edge_by_id
FindEdgeById ==
    /\ clock <= MaxCalls
    /\ \E id \in FindIds : \E f \in find_edge_by_id(id) :
           DoFind("find_edge_by_id", id, find_edge_by_id_Edge(f))

\* NeoRepository.find_entity_tag_by_id
FindEntityTagById ==
    /\ clock <= MaxCalls
    /\ \E id \in FindIds :
           DoFind("find_entity_tag_by_id", id, find_entity_tag_by_id(id))

\* NeoRepository.find_edge_tag_by_id
FindEdgeTagById ==
    /\ clock <= MaxCalls
    /\ \E id \in FindIds :
           DoFind("find_edge_tag_by_id", id, find_edge_tag_by_id(id))

\* NeoRepository.find_entities_by_content(asset)
FindEntitiesByContent ==
    /\ clock <= MaxCalls
    /\ \E asset \in Assets :
           DoFind("find_entities_by_content", asset,
                  [ok |-> TRUE, err |-> "", ret |-> find_entities_by_content(asset)])

\* NeoRepository.find_entity_tags_by_content(prop)
FindEntityTagsByContent ==
    /\ clock <= MaxCalls
    /\ \E prop \in Properties :
           DoFind("find_entity_tags_by_content", prop,
                  find_entity_tags_by_content(prop, 0))

\* NeoRepository.find_edge_tags_by_content(prop)
FindEdgeTagsByContent ==
    /\ clock <= MaxCalls
    /\ \E prop \in Properties :
           DoFind("find_edge_tags_by_content", prop,
                  find_edge_tags_by_content(prop, 0))

\* asset_db's NeoRepository.find_entity_tags_by_content, the earlier
\* generation of the same operation: it raises "no entity tags found" when
\* the query returns no record, and node_to_entity_tag builds EntityTag()
\* without the fields the dataclass requires when it returns one.
asset_db_find_entity_tags_by_content(prop, since) ==
    IF \A n \in entity_tags : ~ContentMatches(n, prop, since)
    THEN [ok |-> FALSE, err |-> "NoTagsFound", ret |-> {}]
    ELSE [ok |-> FALSE, err |-> "TypeError", ret |-> {}]

\* asset_db's NeoRepository.find_edge_tags_by_content
asset_db_find_edge_tags_by_content(prop, since) ==
    IF \A n \in edge_tags : ~ContentMatches(n, prop, since)
    THEN [ok |-> FALSE, err |-> "NoTagsFound", ret |-> {}]
    ELSE [ok |-> FALSE, err |-> "TypeError", ret |-> {}]

AssetDbFindEntityTagsByContent ==
    /\ clock <= MaxCalls
    /\ \E prop \in Properties :
           DoFind("asset_db.find_entity_tags_by_content", prop,
                  asset_db_find_entity_tags_by_content(prop, 0))

AssetDbFindEdgeTagsByContent ==
    /\ clock <= MaxCalls
    /\ \E prop \in Properties :
           DoFind("asset_db.find_edge_tags_by_content", prop,
                  asset_db_find_edge_tags_by_content(prop, 0))

\* Lookups by id and by content over stored entities, edges and tags
NextFind ==
    \/ CreateAsset
    \/ DeleteEntity
    \/ CreateFixtureRelation
    \/ CreateEntityProperty
    \/ CreateEdgeProperty
    \/ FindEntityById
    \/ FindEdgeById
    \/ FindEntityTagById
    \/ FindEdgeTagById
    \/ FindEntitiesByContent
    \/ FindEntityTagsByContent
    \/ FindEdgeTagsByContent
    \/ AssetDbFindEntityTagsByContent
    \/ AssetDbFindEdgeTagsByContent

SpecFind == Init /\ [][NextFind]_vars

\* ---------------------------------------------------------- edge retrieval
\* The since arguments a caller passes: none (0), the time some stored edge
\* was last written, and now.
Sinces == {0, clock} \cup {r.updated_at : r \in edges}

\* The label arguments a caller passes, in several spellings
LabelArgs == {{}, {"Dns_Record"}, {"ptr_record"}, {"PTR_RECORD", "dns_record"}}

\* The Entity objects a caller holds of the stored entities: each as the
\* call that inserted it returned it, and as the latest call that touched
\* it returned it.
HeldEntities ==
    UNION {{EntityOf(n), EntityOf([n EXCEPT !.updated_at = n.created_at])} :
             n \in {m \in entities :
                      \E h \in known_entities : h.id = m.entity_id}}

\* outgoing_edges gives _relationship_to_edge the entity it was called with
\* as from_entity, and the entity it looked up as to_entity.
outgoing_edges_Edges(entity, f) ==
    IF f.ok
    THEN [f EXCEPT !.ret = {Edge(e, entity, find_entity_by_id(e.to).ret) : e \in f.ret}]
    ELSE f

\* incoming_edges: the entity it looked up as from_entity, the one it was
\* called with as to_entity.
incoming_edges_Edges(entity, f) ==
    IF f.ok
    THEN [f EXCEPT !.ret = {Edge(e, find_entity_by_id(e.from).ret, entity) : e \in f.ret}]
    ELSE f

\* NeoRepository.outgoing_edges(entity, since, *labels)
OutgoingEdges ==
    /\ clock <= MaxCalls
    /\ \E entity \in HeldEntities : \E since \in Sinces : \E labels \in LabelArgs :
           DoFind("outgoing_edges",
                  [entity |-> entity, since |-> since, labels |-> labels],
                  outgoing_edges_Edges(entity, outgoing_edges(entity.id, since, labels)))

\* NeoRepository.incoming_edges(entity, since, *labels)
IncomingEdges ==
    /\ clock <= MaxCalls
    /\ \E entity \in HeldEntities : \E since \in Sinces : \E labels \in LabelArgs :
           DoFind("incoming_edges",
                  [entity |-> entity, since |-> since, labels |-> labels],
                  incoming_edges_Edges(entity, incoming_edges(entity.id, since, labels)))

\* asset_db's NeoRepository.outgoing_edges, the earlier generation of the
\* same operation.  relationship_to_edge builds Edge() without the fields
\* the dataclass requires; the exception is swallowed (continue), so no
\* record ever reaches the result, and an empty result raises
\* "no edge found".
asset_db_outgoing_edges(entity_id, since, labels) ==
    [ok |-> FALSE, err |-> "NoEdgeFound", ret |-> {}]

\* asset_db's NeoRepository.incoming_edges: the same, but the exception of
\* relationship_to_edge is re-raised.
asset_db_incoming_edges(entity_id, since, labels) ==
    LET rs == {r \in edges :
                 /\ r.to = entity_id
                 /\ since # 0 => r.updated_at >= since
                 /\ labels # {} =>
                      \E l \in labels : Casefold(l) = Casefold(r.type)}
    IN IF rs = {}
       THEN [ok |-> FALSE, err |-> "NoEdgeFound", ret |-> {}]
       ELSE [ok |-> FALSE, err |-> "TypeError", ret |-> {}]

AssetDbOutgoingEdges ==
    /\ clock <= MaxCalls
    /\ \E h \in known_entities : \E since \in Sinces : \E labels \in LabelArgs :
           DoFind("asset_db.outgoing_edges",
                  [entity |-> h, since |-> since, labels |-> labels],
                  asset_db_outgoing_edges(h.id, since, labels))

AssetDbIncomingEdges ==
    /\ clock <= MaxCalls
    /\ \E h \in known_entities : \E since \in Sinces : \E labels \in LabelArgs :
           DoFind("asset_db.incoming_edges",
                  [entity |-> h, since |-> since, labels |-> labels],
                  asset_db_incoming_edges(h.id, since, labels))

\* Edges written and read back by their end entities
NextEdgeFind ==
    \/ CreateAsset
    \/ CreateRelation
    \/ FindEdgeById
    \/ OutgoingEdges
    \/ IncomingEdges
    \/ AssetDbOutgoingEdges
    \/ AssetDbIncomingEdges

SpecEdgeFind == Init /\ [][NextEdgeFind]_vars

\* ----------------------------------------------------------- tags by owner
\* find_entity_tags(entity, since, *names): the EntityTag nodes with the
\* entity's id, each converted (which looks its owner up), then filtered by
\* "tag.prop.name in names".  It raises "no entity tags found" when the
\* query returns nothing and "no entity tag found" when the filter leaves
\* nothing.
find_entity_tags(entity_id, since, names) ==
    LET nodes == {n \in entity_tags :
                    /\ n.entity_id = entity_id
                    /\ since # 0 => n.updated_at >= since}
        tags == {_node_to_entity_tag(n).ret :
                    n \in {m \in nodes : names # {} => m.prop.name \in names}}
    IN IF nodes = {}
       THEN [ok |-> FALSE, err |-> "NoTagsFound", ret |-> {}]
       ELSE IF \E n \in nodes : ~_node_to_entity_tag(n).ok
       THEN [ok |-> FALSE, err |-> "NotFound", ret |-> {}]
       ELSE IF tags = {}
       THEN [ok |-> FALSE, err |-> "NoTagFound", ret |-> {}]
       ELSE [ok |-> TRUE, err |-> "", ret |-> tags]

\* find_edge_tags(edge, since, *names): the same over EdgeTag nodes, but an
\* empty result is returned as the empty list.
find_edge_tags(edge_id, since, names) ==
    LET nodes == {n \in edge_tags :
                    /\ n.edge_id = edge_id
                    /\ since # 0 => n.updated_at >= since}
        tags == {_node_to_edge_tag(n).ret :
                    n \in {m \in nodes : names # {} => m.prop.name \in names}}
    IN IF \E n \in nodes : ~_node_to_edge_tag(n).ok
       THEN [ok |-> FALSE, err |-> "NotFound", ret |-> {}]
       ELSE [ok |-> TRUE, err |-> "", ret |-> tags]

\* The since arguments a caller passes: none (0), the time some stored tag
\* was last written, and now.
TagSinces ==
    {0, clock} \cup {n.updated_at : n \in entity_tags \cup edge_tags}

\* The name arguments a caller passes; names are compared as written.
NameArgs == {{}, {"myscript"}, {"MYSCRIPT"}, {"other", "unused"}}

\* NeoRepository.find_entity_tags(entity, since, *names)
FindEntityTags ==
    /\ clock <= MaxCalls
    /\ \E h \in known_entities : \E since \in TagSinces : \E names \in NameArgs :
           DoFind("find_entity_tags",
                  [owner |-> h.id, since |-> since, names |-> names],
                  find_entity_tags(h.id, since, names))

\* NeoRepository.find_edge_tags(edge, since, *names)
FindEdgeTags ==
    /\ clock <= MaxCalls
    /\ \E e \in known_edges : \E since \in TagSinces : \E names \in NameArgs :
           DoFind("find_edge_tags",
                  [owner |-> e, since |-> since, names |-> names],
                  find_edge_tags(e, since, names))

\* Tags written and read back by their owner
NextTagFind ==
    \/ CreateAsset
    \/ CreateFixtureRelation
    \/ CreateEntityProperty
    \/ CreateEdgeProperty
    \/ FindEntityTags
    \/ FindEdgeTags

SpecTagFind == Init /\ [][NextTagFind]_vars

\* ------------------------------------------------------ concurrent callers
\* create_edge and create_entity_tag make two round trips to the store, the
\* lookup and then the write, and hold no lock between them: another
\* caller's round trip can fall in between.  A call that has looked up is
\* kept in pending with what its lookup returned; its write acts on the
\* store as it is then.

\* What the concurrent callers submit: the relation of the test fixture as
\* first seen and as seen again later, and the property of the edge-tag tests.
RaceRelations == {FixtureRelation, [FixtureRelation EXCEPT !.seen = MaxSeen]}
RaceProperty == [ptype |-> "SourceProperty", name |-> "myscript", seen |-> 1]

\* The calls that have looked up and not yet written
InFlight == Cardinality({c \in Callers : pending[c] # Idle})

\* create_relation up to the return of _find_existing_edge
LookupEdge ==
    /\ clock + InFlight <= MaxCalls
    /\ \E c \in Callers : \E from \in known_entities : \E to \in known_entities :
       \E rel \in RaceRelations :
        LET edge == [id |-> NoId, from |-> from, to |-> to, rel |-> rel] IN
        /\ pending[c] = Idle
        /\ IF taxonomy_rejects(edge)
           THEN /\ last' = Failure("create_relation", edge, "TaxonomyViolation")
                /\ clock' = clock + 1
                /\ UNCHANGED pending
           ELSE /\ \E f \in _find_existing_edge(edge) :
                      pending' = [pending EXCEPT ![c] =
                                     [pc |-> "write", op |-> "create_relation",
                                      arg |-> edge, f |-> f]]
                /\ UNCHANGED <<last, clock>>
    /\ UNCHANGED <<entities, edges, entity_tags, edge_tags, _events_buffer,
                   emit_events, enforce_taxonomy, nextId, known_entities,
                   known_edges, known_tags>>

\* create_relation from the return of _find_existing_edge on.  execute_query
\* either answers or raises (the store is unreachable, the call timed out or
\* was cancelled); the exception is re-raised before anything is emitted.
\* The untouched path sends no statement.
WriteEdge ==
    /\ \E c \in Callers :
        /\ pending[c] # Idle
        /\ pending[c].op = "create_relation"
        /\ LET p == pending[c]
               r == create_edge(p.op, p.arg, p.f, clock, nextId)
               sends == p.f.found = None \/ has_new_data(p.arg, p.f.found)
           IN \E answered \in IF sends THEN BOOLEAN ELSE {TRUE} :
                IF answered
                THEN /\ edges' = r.edges
                     /\ _events_buffer' = r.events
                     /\ last' = r.last
                     /\ known_edges' = IF r.last.ok
                                       THEN known_edges \cup {r.last.ret.id}
                                       ELSE known_edges
                     /\ nextId' = IF r.last.outcome = "inserted"
                                  THEN nextId + 1 ELSE nextId
                ELSE /\ last' = Failure(p.op, p.arg, "ServiceUnavailable")
                     /\ UNCHANGED <<edges, _events_buffer, known_edges, nextId>>
        /\ pending' = [pending EXCEPT ![c] = Idle]
    /\ clock' = clock + 1
    /\ UNCHANGED <<entities, entity_tags, edge_tags, emit_events,
                   enforce_taxonomy, known_entities, known_tags>>

\* create_entity_property up to the return of _find_existing_entity_tag; a
\* failure of the lookup ends the call.
LookupEntityTag ==
    /\ clock + InFlight <= MaxCalls
    /\ \E c \in Callers : \E h \in known_entities :
        LET tag == [id |-> NoId, owner |-> h.id, prop |-> RaceProperty] IN
        /\ pending[c] = Idle
        /\ \E f \in _find_existing_entity_tag(tag) :
            IF f.ok
            THEN /\ pending' = [pending EXCEPT ![c] =
                                   [pc |-> "write", op |-> "create_entity_property",
                                    arg |-> tag, f |-> f]]
                 /\ UNCHANGED <<last, clock>>
            ELSE /\ last' = Failure("create_entity_property", tag, f.err)
                 /\ clock' = clock + 1
                 /\ UNCHANGED pending
    /\ UNCHANGED <<entities, edges, entity_tags, edge_tags, _events_buffer,
                   emit_events, enforce_taxonomy, nextId, known_entities,
                   known_edges, known_tags>>

\* create_entity_property from the return of _find_existing_entity_tag on
WriteEntityTag ==
    /\ \E c \in Callers :
        /\ pending[c] # Idle
        /\ pending[c].op = "create_entity_property"
        /\ LET p == pending[c]
               r == create_entity_tag(p.op, p.arg, p.f, clock, nextId)
               sends == p.f.found = None \/ is_fresher_than(p.arg.prop, p.f.found.prop)
           IN \E answered \in IF sends THEN BOOLEAN ELSE {TRUE} :
                IF answered
                THEN /\ entity_tags' = r.tags
                     /\ _events_buffer' = r.events
                     /\ last' = r.last
                     /\ known_tags' = IF r.last.ok
                                      THEN [known_tags EXCEPT
                                              !.entity = @ \cup {r.last.ret.id}]
                                      ELSE known_tags
                     /\ nextId' = IF r.last.outcome = "inserted"
                                  THEN nextId + 1 ELSE nextId
                ELSE /\ last' = Failure(p.op, p.arg, "ServiceUnavailable")
                     /\ UNCHANGED <<entity_tags, _events_buffer, known_tags, nextId>>
        /\ pending' = [pending EXCEPT ![c] = Idle]
    /\ clock' = clock + 1
    /\ UNCHANGED <<entities, edges, edge_tags, emit_events, enforce_taxonomy,
                   known_entities, known_edges>>


\* NeoRepository.find_entity_tags_by_content(prop, since); since = 0 stands
\* for None.
FindEntityTagsByContentSince ==
    /\ clock <= MaxCalls
    /\ \E prop \in Properties : \E since \in TagSinces :
           DoFind("find_entity_tags_by_content",
                  [prop |-> prop, since |-> since],
                  find_entity_tags_by_content(prop, since))

\* NeoRepository.find_edge_tags_by_content(prop, since)
FindEdgeTagsByContentSince ==
    /\ clock <= MaxCalls
    /\ \E prop \in Properties : \E since \in TagSinces :
           DoFind("find_edge_tags_by_content",
                  [prop |-> prop, since |-> since],
                  find_edge_tags_by_content(prop, since))

\* Tags and the lookups of tags by content, with and without since
NextContent ==
    \/ CreateAsset
    \/ DeleteEntity
    \/ CreateFixtureRelation
    \/ CreateEntityProperty
    \/ CreateEdgeProperty
    \/ FindEntityTagsByContentSince
    \/ FindEdgeTagsByContentSince

SpecContent == Init /\ [][NextContent]_vars

\* ------------------------------------------------------------ specification
\* Entities and edges
NextEdge ==
    \/ CreateAsset
    \/ DeleteEntity
    \/ CreateRelation
    \/ CreateEdge
    \/ DeleteEdge

SpecEdge == Init /\ [][NextEdge]_vars

\* Entities only
NextEntity ==
    \/ CreateAsset
    \/ CreateEntity
    \/ DeleteEntity
    \/ FlushEvents

SpecEntity == Init /\ [][NextEntity]_vars

\* Entities, one kind of relation, and the tags of entities and edges
NextTag ==
    \/ CreateAsset
    \/ DeleteEntity
    \/ CreateFixtureRelation
    \/ CreateEntityProperty
    \/ CreateEntityTag
    \/ DeleteEntityTag
    \/ CreateEdgeProperty
    \/ CreateEdgeTag
    \/ DeleteEdgeTag

\* Resubmission: create_asset, create_relation and the create_*_property calls
NextUpsert ==
    \/ CreateAsset
    \/ CreateRelation
    \/ CreateEntityProperty
    \/ CreateEdgeProperty

SpecUpsert == Init /\ [][NextUpsert]_vars

SpecTag == Init /\ [][NextTag]_vars

\* Every operation
Next ==
    \/ CreateAsset
    \/ CreateEntity
    \/ DeleteEntity
    \/ CreateRelation
    \/ CreateEdge
    \/ DeleteEdge
    \/ CreateEntityProperty
    \/ CreateEntityTag
    \/ DeleteEntityTag
    \/ CreateEdgeProperty
    \/ CreateEdgeTag
    \/ DeleteEdgeTag
    \/ FlushEvents

Spec == Init /\ [][Next]_vars

\* A repository constructed as the tests construct it, with emit_events=True
InitEmitting == Init /\ emit_events

\* Every create_* and delete_* operation of the facade
NextEvents ==
    \/ CreateAsset
    \/ DeleteEntity
    \/ CreateRelation
    \/ DeleteEdge
    \/ CreateEntityProperty
    \/ CreateEdgeProperty
    \/ DeleteEntityTag
    \/ DeleteEdgeTag

SpecEvents == InitEmitting /\ [][NextEvents]_vars


\* Two callers on one store, their round trips interleaved
NextRace ==
    \/ CreateAsset
    \/ DeleteEntity
    \/ LookupEdge
    \/ WriteEdge
    \/ LookupEntityTag
    \/ WriteEntityTag

\* The repository as the tests build it: NeoRepository(uri, auth,
\* emit_events=True), with enforce_taxonomy at its default
InitFixture == InitEmitting /\ enforce_taxonomy

SpecRace == InitFixture /\ [][NextRace]_vars


\* The entities the fixtures from_entity and to_entity of the tests create
\* before a test body runs: FQDN("test.example.com") and
\* IPAddress("192.168.1.1"), stored before the first call that is counted.
FixtureFrom ==
    [entity_id |-> 1, created_at |-> -1, updated_at |-> -1,
     asset |-> [atype |-> "FQDN", name |-> "test.example.com"]]
FixtureTo ==
    [entity_id |-> 2, created_at |-> 0, updated_at |-> 0,
     asset |-> [atype |-> "IPAddress", name |-> "192.168.1.1"]]

\* The repository of the tests after those two create_asset calls, their
\* events not flushed
InitScenario ==
    /\ entities = {FixtureFrom, FixtureTo}
    /\ edges = {}
    /\ entity_tags = {}
    /\ edge_tags = {}
    /\ _events_buffer = <<Event("EntityInserted", EntityOf(FixtureFrom), None),
                          Event("EntityInserted", EntityOf(FixtureTo), None)>>
    /\ emit_events = TRUE
    /\ enforce_taxonomy = TRUE
    /\ clock = 1
    /\ nextId = 3
    /\ known_entities = {[id |-> 1, asset |-> FixtureFrom.asset],
                         [id |-> 2, asset |-> FixtureTo.asset]}
    /\ known_edges = {}
    /\ known_tags = [entity |-> {}, edge |-> {}]
    /\ pending = [c \in Callers |-> Idle]
    /\ last = NoCall

\* The calls the edge and edge-tag tests make on that repository
NextScenario ==
    \/ CreateFixtureRelation
    \/ CreateEdgeProperty
    \/ DeleteEdge
    \/ DeleteEdgeTag

SpecScenario == InitScenario /\ [][NextScenario]_vars


\* A relationship between the two fixture entities that did not come from
\* create_edge: another writer, or an earlier schema, left it without its
\* created_at property or without its edge_id.
DriftedRelationships ==
    {RelationshipOf([id |-> 3, created_at |-> NoTime, updated_at |-> 0,
                     from |-> 1, to |-> 2, rel |-> FixtureRelation], 3),
     RelationshipOf([id |-> NoId, created_at |-> 0, updated_at |-> 0,
                     from |-> 1, to |-> 2, rel |-> FixtureRelation], 3)}

\* The repository of the tests over a store that holds such a relationship
InitDrift ==
    /\ entities = {FixtureFrom, FixtureTo}
    /\ \E r \in DriftedRelationships : edges = {r}
    /\ entity_tags = {}
    /\ edge_tags = {}
    /\ _events_buffer = <<>>
    /\ emit_events = TRUE
    /\ enforce_taxonomy = TRUE
    /\ clock = 1
    /\ nextId = 4
    /\ known_entities = {[id |-> 1, asset |-> FixtureFrom.asset],
                         [id |-> 2, asset |-> FixtureTo.asset]}
    /\ known_edges = {}
    /\ known_tags = [entity |-> {}, edge |-> {}]
    /\ pending = [c \in Callers |-> Idle]
    /\ last = NoCall

\* Reads and resubmissions over the drifted store
NextDrift ==
    \/ CreateFixtureRelation
    \/ FindEdgeById
    \/ OutgoingEdges
    \/ IncomingEdges

SpecDrift == InitDrift /\ [][NextDrift]_vars


\* _find_existing_edge when the scan of the outgoing edges raises and the
\* exception propagates to create_edge
_find_existing_edge_Raise(edge) ==
    [ok |-> FALSE, err |-> "ScanFailure", found |-> None]

\* _find_existing_edge when the scan of the outgoing edges raises (the store
\* does not answer the query of outgoing_edges): "except Exception as e:
\* return None".
_find_existing_edge_Except(edge) ==
    [ok |-> TRUE, err |-> "", found |-> None]

\* create_relation on a call whose duplicate scan raises.  The taxonomy gate
\* has passed, or there would have been no scan; the statement that follows
\* the scan is answered or raises in its turn.
CreateRelationScanRaises ==
    /\ clock <= MaxCalls
    /\ \E edge \in EdgeArgs({NoId}) : \E answered \in BOOLEAN :
        LET r == create_edge("create_relation", edge,
                             _find_existing_edge_Except(edge), clock, nextId) IN
        /\ ~taxonomy_rejects(edge)
        /\ IF answered \/ ~r.last.ok
           THEN /\ edges' = r.edges
                /\ _events_buffer' = r.events
                /\ last' = r.last
                /\ known_edges' = IF r.last.ok THEN known_edges \cup {r.last.ret.id}
                                  ELSE known_edges
                /\ nextId' = IF r.last.outcome = "inserted" THEN nextId + 1 ELSE nextId
           ELSE /\ last' = Failure("create_relation", edge, "ServiceUnavailable")
                /\ UNCHANGED <<edges, _events_buffer, known_edges, nextId>>
        /\ clock' = clock + 1
        /\ UNCHANGED <<entities, entity_tags, edge_tags, emit_events,
                       enforce_taxonomy, pending, known_tags, known_entities>>

\* Edge creation on a store that does not answer every query
NextScan ==
    \/ CreateAsset
    \/ CreateRelation
    \/ CreateRelationScanRaises

SpecScan == InitFixture /\ [][NextScan]_vars


\* The repository as its constructor leaves it when enforce_taxonomy is not
\* given: the taxonomy is enforced.
InitDefault == Init /\ enforce_taxonomy

\* Resubmission to a repository that enforces the taxonomy
SpecResubmit == InitDefault /\ [][NextUpsert]_vars


\* The repository as NeoRepository(uri, auth) constructs it: enforce_taxonomy
\* True and emit_events False.
InitSilent == InitDefault /\ ~emit_events

\* Every create_* and delete_* operation of the facade, and flush_events
NextSilent ==
    \/ CreateAsset
    \/ DeleteEntity
    \/ CreateRelation
    \/ DeleteEdge
    \/ CreateEntityProperty
    \/ CreateEdgeProperty
    \/ DeleteEntityTag
    \/ DeleteEdgeTag
    \/ FlushEvents

SpecSilent == InitSilent /\ [][NextSilent]_vars

\* ------------------------------------------------------------------ claims
\* A step is a call of the repository when last' records it at this tick.
IsCall(ops) == last'.n = clock /\ last'.op \in ops

\* Equality of two properties over their type and declared fields
PropContentEqual(p, q) == p.ptype = q.ptype /\ p.name = q.name /\ p.seen = q.seen

LastEvent(buffer) == buffer[Len(buffer)]

\* C1: the store never holds two distinct edges between the same ordered
\* (from, to) pair whose relations are content-equal (relation.equals).
C1_NoDuplicateEdges ==
    \A r1 \in edges : \A r2 \in edges :
        (r1 # r2 /\ r1.from = r2.from /\ r1.to = r2.to) => ~equals(r1.rel, r2.rel)

\* C2: no entity and no edge owns two distinct stored tags whose properties
\* are content-equal.
C2_NoDuplicateTags ==
    /\ \A t1 \in entity_tags : \A t2 \in entity_tags :
           (t1 # t2 /\ t1.entity_id = t2.entity_id)
               => ~PropContentEqual(t1.prop, t2.prop)
    /\ \A t1 \in edge_tags : \A t2 \in edge_tags :
           (t1 # t2 /\ t1.edge_id = t2.edge_id)
               => ~PropContentEqual(t1.prop, t2.prop)

\* C2 witness: a property was submitted again to the owner that holds it.
C2_Witness ==
    /\ last.op \in {"create_entity_property", "create_edge_property"}
    /\ last.outcome = "untouched"
    /\ last.ret.owner = last.arg.owner
    /\ Cardinality(entity_tags) + Cardinality(edge_tags) >= 2

\* C3: when a content-equal property is stored only on other owners,
\* create_entity_property / create_edge_property for a stored owner B
\* inserts a new tag owned by B, emits *TagInserted and returns a tag of B;
\* the tags of the other owners are neither returned nor changed.
C3_OwnerScoped ==
    [][/\ (/\ IsCall({"create_entity_property"})
           /\ find_entity_by_id(last'.arg.owner).ok
           /\ \E n \in entity_tags : PropContentEqual(n.prop, last'.arg.prop)
           /\ \A n \in entity_tags : PropContentEqual(n.prop, last'.arg.prop)
                                        => n.entity_id # last'.arg.owner)
          => (/\ last'.outcome = "inserted"
              /\ last'.ret.owner = last'.arg.owner
              /\ entity_tags \subseteq entity_tags'
              /\ Cardinality(entity_tags') = Cardinality(entity_tags) + 1
              /\ emit_events =>
                     _events_buffer' = Append(_events_buffer,
                         Event("EntityTagInserted", last'.ret, None)))
       /\ (/\ IsCall({"create_edge_property"})
           /\ \E r \in edges : r.edge_id = last'.arg.owner
           /\ \E n \in edge_tags : PropContentEqual(n.prop, last'.arg.prop)
           /\ \A n \in edge_tags : PropContentEqual(n.prop, last'.arg.prop)
                                      => n.edge_id # last'.arg.owner)
          => (/\ last'.outcome = "inserted"
              /\ last'.ret.owner = last'.arg.owner
              /\ edge_tags \subseteq edge_tags'
              /\ Cardinality(edge_tags') = Cardinality(edge_tags) + 1
              /\ emit_events =>
                     _events_buffer' = Append(_events_buffer,
                         Event("EdgeTagInserted", last'.ret, None)))]_vars

\* C4: create_asset / create_entity (no id) of content that is stored
\* returns the stored entity's id and created_at with a later updated_at,
\* and, with events enabled, appends exactly one EntityUntouched event.
C4_SameAssetTwice ==
    [][(/\ IsCall({"create_asset", "create_entity"})
        /\ \E n \in entities : n.asset = last'.arg)
       => \E n \in entities :
              /\ n.asset = last'.arg
              /\ last'.ok
              /\ last'.ret.id = n.entity_id
              /\ last'.ret.created_at = n.created_at
              /\ last'.ret.updated_at > n.updated_at
              /\ last'.ret.asset = n.asset
              /\ emit_events =>
                     _events_buffer' = Append(_events_buffer,
                         Event("EntityUntouched", last'.ret, None))]_vars

\* C4 witness: the same asset was submitted a second time, events enabled.
C4_Witness ==
    /\ emit_events
    /\ last.op \in {"create_asset", "create_entity"}
    /\ last.outcome = "untouched"
    /\ last.ret.updated_at > last.ret.created_at
    /\ _events_buffer # <<>>
    /\ LastEvent(_events_buffer).type = "EntityUntouched"

\* C5: the store never holds two distinct entities with equal asset content.
C5_OneEntityPerAsset ==
    \A n1 \in entities : \A n2 \in entities :
        n1.asset = n2.asset => n1 = n2

\* C5 witness: an asset was stored, deleted and stored again, next to a
\* second entity.
C5_Witness ==
    /\ Cardinality(entities) = 2
    /\ \E n \in entities : \E h \in known_entities :
           h.asset = n.asset /\ h.id # n.entity_id

EdgeMatched(edge, fresher) ==
    /\ ~taxonomy_rejects(edge)
    /\ \A f \in _find_existing_edge(edge) :
           /\ f.ok
           /\ f.found # None
           /\ is_fresher_than(edge.rel, f.found.rel) = fresher

EntityTagMatched(tag, fresher) ==
    \A f \in _find_existing_entity_tag(tag) :
        /\ f.ok
        /\ f.found # None
        /\ is_fresher_than(tag.prop, f.found.prop) = fresher

EdgeTagMatched(tag, fresher) ==
    \A f \in _find_existing_edge_tag(tag) :
        /\ f.ok
        /\ f.found # None
        /\ is_fresher_than(tag.prop, f.found.prop) = fresher

EdgeOps == {"create_edge", "create_relation"}
EntityTagOps == {"create_entity_tag", "create_entity_property"}
EdgeTagOps == {"create_edge_tag", "create_edge_property"}

\* C7: when an existing edge or tag is matched and the incoming payload is
\* fresher, the stored record is replaced by one with the payload
\* stored.override_with(incoming), the same id and created_at and a strictly
\* greater updated_at, and exactly one *Updated event (old, new) is emitted.
C7_FreshnessMerge ==
    [][/\ (IsCall(EdgeOps) /\ EdgeMatched(last'.arg, TRUE))
          => \E f \in _find_existing_edge(last'.arg) :
                 /\ last'.ok
                 /\ last'.outcome = "updated"
                 /\ last'.ret.id = f.found.id
                 /\ last'.ret.created_at = f.found.created_at
                 /\ last'.ret.updated_at > f.found.updated_at
                 /\ last'.ret.rel = override_with(f.found.rel, last'.arg.rel)
                 /\ \A r \in edges :
                        _relationship_to_edge(r, r.from, r.to) = f.found
                        => \E r2 \in edges' :
                               /\ r2.el = r.el
                               /\ _relationship_to_edge(r2, r2.from, r2.to) = last'.ret
                 /\ emit_events =>
                        _events_buffer' = Append(_events_buffer,
                            Event("EdgeUpdated", last'.ret, f.found))
       /\ (IsCall(EntityTagOps) /\ EntityTagMatched(last'.arg, TRUE))
          => \E f \in _find_existing_entity_tag(last'.arg) :
                 /\ last'.ok
                 /\ last'.outcome = "updated"
                 /\ last'.ret.id = f.found.id
                 /\ last'.ret.created_at = f.found.created_at
                 /\ last'.ret.updated_at > f.found.updated_at
                 /\ last'.ret.prop = prop_override_with(f.found.prop, last'.arg.prop)
                 /\ \E n \in entity_tags' :
                        n.tag_id = f.found.id /\ n.prop = last'.ret.prop
                 /\ emit_events =>
                        _events_buffer' = Append(_events_buffer,
                            Event("EntityTagUpdated", last'.ret, f.found))
       /\ (IsCall(EdgeTagOps) /\ EdgeTagMatched(last'.arg, TRUE))
          => \E f \in _find_existing_edge_tag(last'.arg) :
                 /\ last'.ok
                 /\ last'.outcome = "updated"
                 /\ last'.ret.id = f.found.id
                 /\ last'.ret.created_at = f.found.created_at
                 /\ last'.ret.updated_at > f.found.updated_at
                 /\ last'.ret.prop = prop_override_with(f.found.prop, last'.arg.prop)
                 /\ \E n \in edge_tags' :
                        n.tag_id = f.found.id /\ n.prop = last'.ret.prop
                 /\ emit_events =>
                        _events_buffer' = Append(_events_buffer,
                            Event("EdgeTagUpdated", last'.ret, f.found))]_vars

\* C8: submitting a relation or a property whose stored match it is not
\* fresher than writes nothing: the store is unchanged, the stored record
\* is returned and, with events enabled, exactly one *Untouched event that
\* carries it is appended.
C8_NotFresherNoWrite ==
    [][/\ (IsCall(EdgeOps) /\ EdgeMatched(last'.arg, FALSE))
          => \E f \in _find_existing_edge(last'.arg) :
                 /\ last'.ok
                 /\ last'.ret = f.found
                 /\ store' = store
                 /\ emit_events =>
                        _events_buffer' = Append(_events_buffer,
                            Event("EdgeUntouched", f.found, None))
       /\ (IsCall(EntityTagOps) /\ EntityTagMatched(last'.arg, FALSE))
          => \E f \in _find_existing_entity_tag(last'.arg) :
                 /\ last'.ok
                 /\ last'.ret = f.found
                 /\ store' = store
                 /\ emit_events =>
                        _events_buffer' = Append(_events_buffer,
                            Event("EntityTagUntouched", f.found, None))
       /\ (IsCall(EdgeTagOps) /\ EdgeTagMatched(last'.arg, FALSE))
          => \E f \in _find_existing_edge_tag(last'.arg) :
                 /\ last'.ok
                 /\ last'.ret = f.found
                 /\ store' = store
                 /\ emit_events =>
                        _events_buffer' = Append(_events_buffer,
                            Event("EdgeTagUntouched", f.found, None))]_vars

\* C8 witness: events are enabled, a relation with older data than the
\* stored one was submitted to the same entities and left the edge
\* untouched; the last buffered event is the EdgeUntouched for it.
C8_Witness ==
    /\ emit_events
    /\ last.op \in EdgeOps
    /\ last.outcome = "untouched"
    /\ last.arg.from.id = last.ret.from /\ last.arg.to.id = last.ret.to
    /\ last.arg.rel.seen < last.ret.rel.seen
    /\ _events_buffer # <<>>
    /\ LastEvent(_events_buffer).type = "EdgeUntouched"
    /\ LastEvent(_events_buffer).rec = last.ret

\* The effect C9 describes: one new edge with a fresh id between the
\* submitted entities, and one EdgeInserted event for it.
EdgeInsertedByCall ==
    /\ last'.ok
    /\ last'.outcome = "inserted"
    /\ \A r \in edges : r.edge_id # last'.ret.id
    /\ last'.ret.id \notin known_edges
    /\ last'.ret.from = last'.arg.from.id
    /\ last'.ret.to = last'.arg.to.id
    /\ \E r \in edges' :
           /\ edges' = edges \cup {r}
           /\ r \notin edges
           /\ r.edge_id = last'.ret.id
           /\ r.from = last'.arg.from.id
           /\ r.to = last'.arg.to.id
           /\ r.rel = last'.arg.rel
    /\ emit_events =>
           _events_buffer' = Append(_events_buffer,
               Event("EdgeInserted", last'.ret, None))

\* create_relation is called for two stored entities that have no edge
\* with a content-equal relation between them.
NoEqualEdgeBetween ==
    /\ IsCall({"create_relation"})
    /\ find_entity_by_id(last'.arg.from.id).ok
    /\ find_entity_by_id(last'.arg.to.id).ok
    /\ \A r \in edges :
           ~(/\ r.from = last'.arg.from.id
             /\ r.to = last'.arg.to.id
             /\ equals(last'.arg.rel, r.rel))

\* C9 as stated: create_relation between two stored entities with no
\* content-equal edge between them stores exactly one new edge with a fresh
\* id and emits exactly one EdgeInserted event carrying that edge.
C9_InsertsEdge_Original ==
    [][NoEqualEdgeBetween => EdgeInsertedByCall]_vars

\* C9 as amended: the same, for a call the taxonomy gate lets through
\* (enforcement is off or the validator accepts the triple).
C9_InsertsEdge ==
    [][(NoEqualEdgeBetween /\ ~taxonomy_rejects(last'.arg))
       => EdgeInsertedByCall]_vars

\* C9 witness: with enforcement on and events enabled a second,
\* non-equal relation was inserted between two entities.
C9_Witness ==
    /\ enforce_taxonomy
    /\ emit_events
    /\ last.op = "create_relation"
    /\ last.outcome = "inserted"
    /\ Cardinality({r \in edges : r.from = last.ret.from /\ r.to = last.ret.to}) = 2
    /\ LastEvent(_events_buffer) = Event("EdgeInserted", last.ret, None)

\* C10: create_entity_property / create_edge_property of a property that
\* has no content-equal tag on that owner stores exactly one new tag linked
\* to the owner and emits exactly one *TagInserted event for it.
C10_InsertsTag ==
    [][/\ (/\ IsCall({"create_entity_property"})
           /\ find_entity_by_id(last'.arg.owner).ok
           /\ \A n \in entity_tags :
                  n.entity_id = last'.arg.owner
                      => ~PropContentEqual(n.prop, last'.arg.prop))
          => (/\ last'.outcome = "inserted"
              /\ last'.ret.owner = last'.arg.owner
              /\ \E n \in entity_tags' :
                     /\ entity_tags' = entity_tags \cup {n}
                     /\ n \notin entity_tags
                     /\ n.tag_id = last'.ret.id
                     /\ n.entity_id = last'.arg.owner
              /\ emit_events =>
                     _events_buffer' = Append(_events_buffer,
                         Event("EntityTagInserted", last'.ret, None)))
       /\ (/\ IsCall({"create_edge_property"})
           /\ \E r \in edges : r.edge_id = last'.arg.owner
           /\ \A n \in edge_tags :
                  n.edge_id = last'.arg.owner
                      => ~PropContentEqual(n.prop, last'.arg.prop))
          => (/\ last'.outcome = "inserted"
              /\ last'.ret.owner = last'.arg.owner
              /\ \E n \in edge_tags' :
                     /\ edge_tags' = edge_tags \cup {n}
                     /\ n \notin edge_tags
                     /\ n.tag_id = last'.ret.id
                     /\ n.edge_id = last'.arg.owner
              /\ emit_events =>
                     _events_buffer' = Append(_events_buffer,
                         Event("EdgeTagInserted", last'.ret, None)))]_vars

\* C11: delete_edge(id) of a stored edge returns the edge as it was, leaves
\* no relationship with that edge_id in the store (so that find_edge_by_id
\* fails afterwards) and emits exactly one EdgeDeleted event that carries it.
C11_DeleteEdge ==
    [][(/\ IsCall({"delete_edge"})
        /\ \E f \in find_edge_by_id(last'.arg) : f.ok)
       => (/\ last'.ok
           /\ \E f \in find_edge_by_id(last'.arg) : f.ok /\ last'.ret = f.ret
           /\ last'.ret.id = last'.arg
           /\ \A r \in edges' : r.edge_id # last'.arg
           /\ emit_events =>
                  _events_buffer' = Append(_events_buffer,
                      Event("EdgeDeleted", last'.ret, None)))]_vars

\* C12: delete_entity_tag(id) / delete_edge_tag(id) of a stored tag returns
\* the tag as it was, leaves no tag with that tag_id in the store and emits
\* exactly one *TagDeleted event that carries it.
C12_DeleteTag ==
    [][/\ (/\ IsCall({"delete_entity_tag"})
           /\ \E n \in entity_tags : n.tag_id = last'.arg)
          => (/\ last'.ok
              /\ last'.ret.id = last'.arg
              /\ \E n \in entity_tags :
                     n.tag_id = last'.arg /\ n.entity_id = last'.ret.owner
              /\ \A n \in entity_tags' : n.tag_id # last'.arg
              /\ emit_events =>
                     _events_buffer' = Append(_events_buffer,
                         Event("EntityTagDeleted", last'.ret, None)))
       /\ (/\ IsCall({"delete_edge_tag"})
           /\ \E n \in edge_tags : n.tag_id = last'.arg)
          => (/\ last'.ok
              /\ last'.ret.id = last'.arg
              /\ \E n \in edge_tags :
                     n.tag_id = last'.arg /\ n.edge_id = last'.ret.owner
              /\ \A n \in edge_tags' : n.tag_id # last'.arg
              /\ emit_events =>
                     _events_buffer' = Append(_events_buffer,
                         Event("EdgeTagDeleted", last'.ret, None)))]_vars

FindByIdOps ==
    {"find_entity_by_id", "find_edge_by_id", "find_entity_tag_by_id",
     "find_edge_tag_by_id"}

\* No record of the kind the call looks for is stored under the id.
IdAbsent(op, id) ==
    CASE op = "find_entity_by_id" -> \A n \in entities : n.entity_id # id
      [] op = "find_edge_by_id" -> \A r \in edges : r.edge_id # id
      [] op = "find_entity_tag_by_id" -> \A n \in entity_tags : n.tag_id # id
      [] op = "find_edge_tag_by_id" -> \A n \in edge_tags : n.tag_id # id
      [] OTHER -> FALSE

\* C13: every id-based find called with an id that is not in the store
\* fails with NotFound and leaves the store and the event log unchanged.
C13_FindByIdNotFound ==
    [][(IsCall(FindByIdOps) /\ IdAbsent(last'.op, last'.arg))
       => (/\ ~last'.ok
           /\ last'.err = "NotFound"
           /\ store' = store
           /\ _events_buffer' = _events_buffer)]_vars

TagsByContentOps ==
    {"find_entity_tags_by_content", "asset_db.find_entity_tags_by_content"}

EdgeTagsByContentOps ==
    {"find_edge_tags_by_content", "asset_db.find_edge_tags_by_content"}

\* C14: every content-based find called with content that matches no stored
\* record returns an empty list and does not fail.
C14_FindByContentEmpty ==
    [][/\ (/\ IsCall({"find_entities_by_content"})
           /\ \A n \in entities : n.asset # last'.arg)
          => (last'.ok /\ last'.ret = {})
       /\ (/\ IsCall(TagsByContentOps)
           /\ \A n \in entity_tags :
                  ~(n.nlabel = last'.arg.ptype /\ PropContentEqual(n.prop, last'.arg)))
          => (last'.ok /\ last'.ret = {})
       /\ (/\ IsCall(EdgeTagsByContentOps)
           /\ \A n \in edge_tags :
                  ~(n.nlabel = last'.arg.ptype /\ PropContentEqual(n.prop, last'.arg)))
          => (last'.ok /\ last'.ret = {})]_vars

\* C15: flush_events returns exactly the buffered events, in the order they
\* were emitted, and leaves the buffer empty; every other call leaves the
\* buffered events in place and appends at most one.  A flush that follows
\* a flush therefore returns an empty list, and no event is returned twice.
C15_FlushDrains ==
    [][/\ IsCall({"flush_events"})
          => (/\ last'.ok
              /\ last'.ret.events = _events_buffer
              /\ _events_buffer' = <<>>
              /\ store' = store)
       /\ ~IsCall({"flush_events"})
          => (/\ Len(_events_buffer') \in {Len(_events_buffer), Len(_events_buffer) + 1}
              /\ SubSeq(_events_buffer', 1, Len(_events_buffer)) = _events_buffer)]_vars

\* C15 witness: events are enabled and an entity was created, yet the last
\* call, a flush, returned an empty list: an earlier flush had drained the
\* buffer and nothing was emitted in between.
C15_Witness ==
    /\ emit_events
    /\ entities # {}
    /\ last.op = "flush_events"
    /\ last.ret.events = <<>>
    /\ _events_buffer = <<>>

\* The event types a successful call of an operation can emit.
EventKinds(op) ==
    CASE op \in {"create_asset", "create_entity"} ->
             {"EntityInserted", "EntityUpdated", "EntityUntouched"}
      [] op = "delete_entity" -> {"EntityDeleted"}
      [] op \in EdgeOps -> {"EdgeInserted", "EdgeUpdated", "EdgeUntouched"}
      [] op = "delete_edge" -> {"EdgeDeleted"}
      [] op \in EntityTagOps ->
             {"EntityTagInserted", "EntityTagUpdated", "EntityTagUntouched"}
      [] op = "delete_entity_tag" -> {"EntityTagDeleted"}
      [] op \in EdgeTagOps ->
             {"EdgeTagInserted", "EdgeTagUpdated", "EdgeTagUntouched"}
      [] op = "delete_edge_tag" -> {"EdgeTagDeleted"}
      [] OTHER -> {}

MutatingOps ==
    {"create_asset", "create_entity", "delete_entity", "delete_edge",
     "delete_entity_tag", "delete_edge_tag"}
    \cup EdgeOps \cup EntityTagOps \cup EdgeTagOps

\* C16: with event emission enabled, every create_* or delete_* call that
\* returns successfully appends exactly one event to the log, of the kind
\* of the record it returns and carrying that record's id, whether or not
\* the call changed the store.
C16_OneEventPerCall ==
    [][(emit_events /\ IsCall(MutatingOps) /\ last'.ok)
       => (/\ Len(_events_buffer') = Len(_events_buffer) + 1
           /\ SubSeq(_events_buffer', 1, Len(_events_buffer)) = _events_buffer
           /\ LastEvent(_events_buffer').type \in EventKinds(last'.op)
           /\ LastEvent(_events_buffer').rec.id = last'.ret.id)]_vars

\* C16 witness: four calls in a row succeeded with events enabled, the last
\* of them a create_relation that found its edge stored with the same data
\* and changed nothing; the log holds one event for each call.
C16_Witness ==
    /\ emit_events
    /\ last.op = "create_relation"
    /\ last.outcome = "untouched"
    /\ last.arg.rel = last.ret.rel
    /\ Len(_events_buffer) = 4
    /\ LastEvent(_events_buffer) = Event("EdgeUntouched", last.ret, None)
    /\ \E i \in 1..3 : _events_buffer[i].type = "EdgeUpdated"


\* C17: an event is appended only after a confirmed write or a confirmed
\* no-op.  With two callers interleaving their round trips, with writes that
\* raise and with writes that match nothing because the record was deleted
\* after the lookup: a call that fails leaves the buffer as it was; a step
\* appends at most one event; an *Inserted event is appended only in a step
\* that adds the record it carries to the store, and an *Updated event only
\* in a step after which the store holds the record as the event carries it.
C17_EventAfterConfirmedWrite ==
    [][/\ (last'.n = clock /\ ~last'.ok) => _events_buffer' = _events_buffer
       /\ _events_buffer' # _events_buffer =>
            /\ last'.n = clock /\ last'.ok
            /\ Len(_events_buffer') = Len(_events_buffer) + 1
            /\ SubSeq(_events_buffer', 1, Len(_events_buffer)) = _events_buffer
            /\ LET e == LastEvent(_events_buffer') IN
               /\ e.type = "EntityInserted" =>
                    \E n \in entities' \ entities : EntityOf(n) = e.rec
               /\ e.type = "EdgeInserted" =>
                    \E r \in edges' \ edges :
                        _relationship_to_edge(r, r.from, r.to) = e.rec
               /\ e.type = "EntityTagInserted" =>
                    \E n \in entity_tags' \ entity_tags :
                        /\ n.tag_id = e.rec.id
                        /\ n.prop = e.rec.prop
               /\ e.type = "EdgeUpdated" =>
                    \E r \in edges' \ edges :
                        _relationship_to_edge(r, r.from, r.to) = e.rec
               /\ e.type = "EntityTagUpdated" =>
                    \E n \in entity_tags' \ entity_tags :
                        /\ n.tag_id = e.rec.id
                        /\ n.prop = e.rec.prop
                        /\ n.updated_at = e.rec.updated_at]_vars

\* A caller found the stored relation and came with fresher data, the entity
\* was deleted by another call before its write, and the write, matching
\* nothing, failed without an event: the last event is still the deletion.
C17_Witness ==
    /\ emit_events
    /\ last.op = "create_relation"
    /\ ~last.ok
    /\ last.err = "NoRecords"
    /\ last.arg.rel.seen = MaxSeen
    /\ entities = {}
    /\ _events_buffer # <<>>
    /\ LastEvent(_events_buffer).type = "EntityDeleted"
    /\ \E i \in 1..Len(_events_buffer) :
          /\ _events_buffer[i].type = "EdgeInserted"
          /\ _events_buffer[i].rec.from = last.arg.from.id
          /\ _events_buffer[i].rec.to = last.arg.to.id
          /\ equals(_events_buffer[i].rec.rel, last.arg.rel)


\* Two stored records with the same content: the same relation between the
\* same pair of entities, or the same property on the same owner.
DuplicateEdges(r1, r2) ==
    /\ r1.edge_id # r2.edge_id
    /\ r1.from = r2.from
    /\ r1.to = r2.to
    /\ equals(r1.rel, r2.rel)

DuplicateEntityTags(n1, n2) ==
    /\ n1.tag_id # n2.tag_id
    /\ n1.entity_id = n2.entity_id
    /\ n1.nlabel = n2.nlabel
    /\ n1.prop = n2.prop

\* The lookup of caller c returned "not found", and the same lookup on the
\* store as it is now would not: it would find a record, or fail on one.
StaleNotFound(c) ==
    /\ pending[c] # Idle
    /\ pending[c].f.found = None
    /\ IF pending[c].op = "create_relation"
       THEN \A f \in _find_existing_edge(pending[c].arg) :
                ~(f.ok /\ f.found = None)
       ELSE \A f \in _find_existing_entity_tag(pending[c].arg) :
                ~(f.ok /\ f.found = None)

\* C18: the existence check and the write are separate round trips with no
\* lock, so two callers submitting the same content can both observe "not
\* found" and both insert.  A duplicate of a stored record is inserted, and
\* is inserted only, by the write of a caller whose "not found" was
\* overtaken by another caller's insert between its lookup and its write.
C18_DuplicateOnlyByRace ==
    [][/\ \A r \in edges' \ edges :
            (last'.outcome = "inserted" /\ \E r0 \in edges : DuplicateEdges(r0, r))
            => \E c \in Callers : StaleNotFound(c) /\ pending'[c] = Idle
       /\ \A n \in entity_tags' \ entity_tags :
            (last'.outcome = "inserted"
             /\ \E n0 \in entity_tags : DuplicateEntityTags(n0, n))
            => \E c \in Callers : StaleNotFound(c) /\ pending'[c] = Idle]_vars

\* Both callers looked up the same relation between the same pair before
\* either wrote: the store holds it twice and both were told "inserted".
C18_Witness ==
    /\ last.op = "create_relation"
    /\ last.outcome = "inserted"
    /\ \E r1 \in edges : \E r2 \in edges :
          /\ DuplicateEdges(r1, r2)
          /\ r2.edge_id = last.ret.id
          /\ \E i \in 1..Len(_events_buffer) : \E j \in 1..Len(_events_buffer) :
                /\ i < j
                /\ _events_buffer[i] =
                       Event("EdgeInserted", _relationship_to_edge(r1, r1.from, r1.to), None)
                /\ _events_buffer[j] =
                       Event("EdgeInserted", _relationship_to_edge(r2, r2.from, r2.to), None)


\* The record the explicit id of a create_edge / create_*_tag argument names
\* is not in the store.
ExplicitIdAbsent(op, id) ==
    CASE op = "create_edge" -> \A r \in edges : r.edge_id # id
      [] op = "create_entity_tag" -> \A n \in entity_tags : n.tag_id # id
      [] op = "create_edge_tag" -> \A n \in edge_tags : n.tag_id # id
      [] OTHER -> FALSE

ExplicitIdOps == {"create_edge", "create_entity_tag", "create_edge_tag"}

\* C19: create_edge, create_entity_tag and create_edge_tag called with an
\* explicit id that is not in the store fail with NotFound, write nothing
\* and emit no event.
C19_ExplicitIdNotFound ==
    [][(IsCall(ExplicitIdOps) /\ ExplicitIdAbsent(last'.op, last'.arg.id))
       => (/\ ~last'.ok
           /\ last'.err = "NotFound"
           /\ store' = store
           /\ _events_buffer' = _events_buffer)]_vars


\* The stored tag the explicit id of a create_*_tag argument names has
\* another property type than the incoming property.
StoredTypeDiffers(op, tag) ==
    CASE op = "create_entity_tag" ->
            \E n \in entity_tags : n.tag_id = tag.id /\ n.nlabel # tag.prop.ptype
      [] op = "create_edge_tag" ->
            \E n \in edge_tags : n.tag_id = tag.id /\ n.nlabel # tag.prop.ptype
      [] OTHER -> FALSE

\* C20: create_entity_tag / create_edge_tag with an explicit id whose stored
\* tag has a different property type than the incoming property fails with
\* TypeMismatch and leaves the store unchanged; and no step changes the
\* property type (the label and the variant of the property) of a stored tag.
C20_TypeMismatch ==
    [][/\ (IsCall({"create_entity_tag", "create_edge_tag"})
           /\ StoredTypeDiffers(last'.op, last'.arg))
          => (/\ ~last'.ok
              /\ last'.err = "TypeMismatch"
              /\ store' = store
              /\ _events_buffer' = _events_buffer)
       /\ \A n \in entity_tags : \A m \in entity_tags' :
            n.tag_id = m.tag_id
            => (n.nlabel = m.nlabel /\ n.prop.ptype = m.prop.ptype)
       /\ \A n \in edge_tags : \A m \in edge_tags' :
            n.tag_id = m.tag_id
            => (n.nlabel = m.nlabel /\ n.prop.ptype = m.prop.ptype)]_vars


\* The spellings of a stored label that match it when case is ignored
SpellingsOf(stored) ==
    CASE stored = "DNS_RECORD" -> {"dns_record", "DNS_RECORD", "Dns_Record"}
      [] stored = "PTR_RECORD" -> {"ptr_record", "PTR_RECORD"}
      [] OTHER -> {stored}

\* The stored edge r passes the since and label filters of a retrieval
PassesFilters(r, since, labels) ==
    /\ since # 0 => r.updated_at >= since
    /\ labels # {} => labels \cap SpellingsOf(Upper(r.rel.label)) # {}

\* A returned edge with its two ends named by their ids
EndsById(e) ==
    [id |-> e.id, created_at |-> e.created_at, updated_at |-> e.updated_at,
     from |-> e.from_entity.id, to |-> e.to_entity.id, rel |-> e.rel]

OutgoingOps == {"outgoing_edges", "asset_db.outgoing_edges"}
IncomingOps == {"incoming_edges", "asset_db.incoming_edges"}

\* C21: outgoing_edges(e, since, labels...) returns exactly the stored edges
\* whose from_entity is e, whose updated_at is at or after since (when
\* given) and whose label is one of the given labels ignoring case (when
\* any is given); incoming_edges does the same for the edges whose
\* to_entity is e; both return the empty list, not an error, when nothing
\* matches.
C21_EdgeRetrieval ==
    [][/\ IsCall(OutgoingOps) =>
            /\ last'.ok
            /\ {EndsById(e) : e \in last'.ret} =
                 {_relationship_to_edge(r, r.from, r.to) :
                    r \in {x \in edges :
                             /\ x.from = last'.arg.entity.id
                             /\ PassesFilters(x, last'.arg.since, last'.arg.labels)}}
       /\ IsCall(IncomingOps) =>
            /\ last'.ok
            /\ {EndsById(e) : e \in last'.ret} =
                 {_relationship_to_edge(r, r.from, r.to) :
                    r \in {x \in edges :
                             /\ x.to = last'.arg.entity.id
                             /\ PassesFilters(x, last'.arg.since, last'.arg.labels)}}]_vars


\* The stored tag node n passes the since and name filters of a lookup by
\* owner.
PassesTagFilters(n, since, names) ==
    /\ since # 0 => n.updated_at >= since
    /\ names # {} => n.prop.name \in names

\* The tag object of a stored tag node
TagOf(n, owner) ==
    [id |-> n.tag_id, owner |-> owner, created_at |-> n.created_at,
     updated_at |-> n.updated_at, prop |-> n.prop]

\* C22: find_entity_tags(owner, since, names...) and find_edge_tags(owner,
\* since, names...) return exactly the stored tags attached to that owner
\* whose updated_at is at or after since (when given) and whose property
\* name is exactly one of the given names (when any is given).
C22_TagsByOwner ==
    [][/\ IsCall({"find_entity_tags"}) =>
            /\ last'.ok
            /\ last'.ret =
                 {TagOf(n, n.entity_id) :
                    n \in {m \in entity_tags :
                             /\ m.entity_id = last'.arg.owner
                             /\ PassesTagFilters(m, last'.arg.since, last'.arg.names)}}
       /\ IsCall({"find_edge_tags"}) =>
            /\ last'.ok
            /\ last'.ret =
                 {TagOf(n, n.edge_id) :
                    n \in {m \in edge_tags :
                             /\ m.edge_id = last'.arg.owner
                             /\ PassesTagFilters(m, last'.arg.since, last'.arg.names)}}]_vars


\* The event log of the scenario after its two entity creations and the
\* first k of its next calls: create_relation(dns_record) from the FQDN to
\* the IPAddress, the same call again, create_edge_property(edge,
\* SourceProperty).  Every call until then was one of the scenario.
ScenarioLog(k) ==
    /\ clock = k + 1
    /\ Len(_events_buffer) = k + 2
    /\ _events_buffer[1] = Event("EntityInserted", EntityOf(FixtureFrom), None)
    /\ _events_buffer[2] = Event("EntityInserted", EntityOf(FixtureTo), None)
    /\ k >= 1 => /\ _events_buffer[3].type = "EdgeInserted"
                 /\ _events_buffer[3].rec.from = 1
                 /\ _events_buffer[3].rec.to = 2
                 /\ _events_buffer[3].rec.rel = FixtureRelation
    /\ k >= 2 => /\ _events_buffer[4].type = "EdgeUntouched"
                 /\ _events_buffer[4].rec.id = _events_buffer[3].rec.id
    /\ k >= 3 => /\ _events_buffer[5].type = "EdgeTagInserted"
                 /\ _events_buffer[5].rec.owner = _events_buffer[3].rec.id
                 /\ _events_buffer[5].rec.prop = RaceProperty

\* The next call is the one the scenario makes after k calls
ScenarioCall(k) ==
    CASE k \in {0, 1} ->
            /\ IsCall({"create_relation"})
            /\ last'.arg.from.id = 1
            /\ last'.arg.to.id = 2
            /\ last'.arg.rel = FixtureRelation
      [] k = 2 ->
            /\ IsCall({"create_edge_property"})
            /\ last'.arg.owner = _events_buffer[3].rec.id
            /\ last'.arg.prop = RaceProperty
      [] k = 3 ->
            /\ IsCall({"delete_edge_tag"})
            /\ last'.arg = _events_buffer[5].rec.id
      [] OTHER -> FALSE

\* C23: from an empty store with events enabled, create FQDN entity, create
\* IPAddress entity, create_relation(dns_record) from the one to the other,
\* the identical create_relation again, create_edge_property(edge,
\* SourceProperty), delete_edge_tag(tag id): each of the last four calls
\* succeeds and appends exactly one event, in order EdgeInserted,
\* EdgeUntouched with the same edge id, EdgeTagInserted, and EdgeTagDeleted
\* whose old tag is the inserted tag.
C23_Scenario ==
    [][\A k \in 0..3 :
         (ScenarioLog(k) /\ ScenarioCall(k))
         => /\ last'.ok
            /\ Len(_events_buffer') = Len(_events_buffer) + 1
            /\ SubSeq(_events_buffer', 1, Len(_events_buffer)) = _events_buffer
            /\ LastEvent(_events_buffer').type =
                 CASE k = 0 -> "EdgeInserted"
                   [] k = 1 -> "EdgeUntouched"
                   [] k = 2 -> "EdgeTagInserted"
                   [] OTHER -> "EdgeTagDeleted"
            /\ k = 0 => LastEvent(_events_buffer').rec.rel = FixtureRelation
            /\ k = 1 => LastEvent(_events_buffer').rec.id = _events_buffer[3].rec.id
            /\ k = 2 => LastEvent(_events_buffer').rec.id = last'.ret.id
            /\ k = 3 => LastEvent(_events_buffer').rec.id = _events_buffer[5].rec.id]_vars


IsStoredEntity(x) == \E n \in entities : EntityOf(n) = x

\* The edges a retrieval call returned
ReturnedEdges(call) ==
    IF ~call.ok THEN {}
    ELSE IF call.op = "find_edge_by_id" THEN {call.ret}
    ELSE call.ret

\* C25: every edge returned by find_edge_by_id, incoming_edges or
\* outgoing_edges carries a from_entity and a to_entity that are equal to
\* the entities currently stored under those ids: no returned edge links to
\* a stub, to a missing entity or to an outdated copy.
C25_Hydrated ==
    [][IsCall({"find_edge_by_id", "outgoing_edges", "incoming_edges"})
       => \A e \in ReturnedEdges(last') :
             /\ IsStoredEntity(e.from_entity)
             /\ IsStoredEntity(e.to_entity)]_vars


\* The stored edge r lacks a field _relationship_to_edge requires
LacksRequiredField(r) ==
    r.edge_id = NoId \/ r.created_at = NoTime \/ r.updated_at = NoTime

\* The read that was just made touches the stored edge r: r is the edge
\* asked for by id, or an edge of the entity asked for that passes the
\* since and label filters.
Touches(call, r) ==
    CASE call.op = "find_edge_by_id" -> r.edge_id = call.arg
      [] call.op = "outgoing_edges" ->
            /\ r.from = call.arg.entity.id
            /\ PassesFilters(r, call.arg.since, call.arg.labels)
      [] call.op = "incoming_edges" ->
            /\ r.to = call.arg.entity.id
            /\ PassesFilters(r, call.arg.since, call.arg.labels)
      [] OTHER -> FALSE

\* C26: a read that touches a stored edge lacking a required field fails
\* with a decode error that reaches the caller: find_edge_by_id,
\* incoming_edges and outgoing_edges fail rather than return a result that
\* omits the undecodable edge.
C26_DecodeErrorReachesCaller ==
    [][(/\ IsCall({"find_edge_by_id", "outgoing_edges", "incoming_edges"})
        /\ \E r \in edges : LacksRequiredField(r) /\ Touches(last', r))
       => (~last'.ok /\ last'.err = "DecodeError")]_vars


\* C27: in create_edge without an explicit id, a failure raised while the
\* outgoing edges of from_entity are scanned for a duplicate is treated as
\* "no duplicate": the call goes on to the insert, and when the store
\* answers it a new edge is stored and EdgeInserted is emitted, even when a
\* content-equal edge between the same pair is already stored.  The failure
\* of the scan is never what the caller is given, nor is the stored edge.
C27_ScanFailureInserts ==
    [][CreateRelationScanRaises =>
        /\ last'.outcome \notin {"updated", "untouched"}
        /\ ~last'.ok => /\ last'.err = "ServiceUnavailable"
                        /\ edges' = edges
                        /\ _events_buffer' = _events_buffer
        /\ last'.ok =>
            /\ last'.outcome = "inserted"
            /\ last'.ret.id = nextId
            /\ \A r \in edges : r.edge_id # nextId
            /\ edges' = edges \cup {RelationshipOf(last'.ret, nextId)}
            /\ last'.ret.from = last'.arg.from.id
            /\ last'.ret.to = last'.arg.to.id
            /\ last'.ret.rel = last'.arg.rel
            /\ Len(_events_buffer') = Len(_events_buffer) + 1
            /\ LastEvent(_events_buffer').type = "EdgeInserted"
            /\ LastEvent(_events_buffer').rec = last'.ret]_vars

\* The scan raised while a content-equal edge between the same pair was
\* stored, and the edge was inserted a second time.
C27_Witness ==
    /\ last.op = "create_relation"
    /\ last.outcome = "inserted"
    /\ \E r1 \in edges : \E r2 \in edges :
          /\ r2.edge_id = last.ret.id
          /\ r1.created_at < r2.created_at
          /\ DuplicateEdges(r1, r2)
    /\ LastEvent(_events_buffer).type = "EdgeInserted"


\* The find_*_by_id of the record kind a create_* operation makes
FinderOf(op) ==
    CASE op \in {"create_asset", "create_entity"} -> "find_entity_by_id"
      [] op \in {"create_relation", "create_edge"} -> "find_edge_by_id"
      [] op \in {"create_entity_property", "create_entity_tag"} -> "find_entity_tag_by_id"
      [] op \in {"create_edge_property", "create_edge_tag"} -> "find_edge_tag_by_id"
      [] OTHER -> "none"

\* The found record has the id, the owner or end ids and the payload of the
\* created one.
SameRecord(finder, found, created) ==
    /\ found.id = created.id
    /\ CASE finder = "find_entity_by_id" -> found.asset = created.asset
         [] finder = "find_edge_by_id" ->
               /\ found.from_entity.id = created.from
               /\ found.to_entity.id = created.to
               /\ found.rel = created.rel
         [] OTHER -> /\ found.owner = created.owner
                     /\ found.prop = created.prop

\* C28: for every record kind, find_*_by_id called with the id a successful
\* create_* has just returned, nothing having changed the store in between,
\* succeeds and returns a record with the same id, the same owner or end ids
\* and the same payload as the created record.
C28_FindAfterCreate ==
    [][(/\ last.ok
        /\ FinderOf(last.op) # "none"
        /\ IsCall({FinderOf(last.op)})
        /\ last'.arg = last.ret.id)
       => (/\ last'.ok
           /\ SameRecord(last'.op, last'.ret, last.ret))]_vars


\* The stored tag nodes whose property type and every declared field equal
\* those of p and that were written at or after since
MatchingNodes(nodes, p, since) ==
    {n \in nodes : /\ n.nlabel = p.ptype
                   /\ PropContentEqual(n.prop, p)
                   /\ n.updated_at >= since}

\* C29: find_entity_tags_by_content(p, since) and
\* find_edge_tags_by_content(p, since) return exactly the stored tags of
\* that kind whose property type and every flattened field equal those of p
\* and whose updated_at is at or after since, whoever owns them; a tag that
\* was just created from p is in the result.
C29_TagsByContentExact ==
    [][/\ IsCall({"find_entity_tags_by_content"}) =>
            /\ last'.ok
            /\ last'.ret = {TagOf(n, n.entity_id) :
                              n \in MatchingNodes(entity_tags, last'.arg.prop,
                                                  last'.arg.since)}
       /\ IsCall({"find_edge_tags_by_content"}) =>
            /\ last'.ok
            /\ last'.ret = {TagOf(n, n.edge_id) :
                              n \in MatchingNodes(edge_tags, last'.arg.prop,
                                                  last'.arg.since)}
       /\ (/\ last.op = "create_entity_property" /\ last.ok
           /\ IsCall({"find_entity_tags_by_content"})
           /\ last'.arg.prop = last.ret.prop
           /\ last'.arg.since <= last.ret.updated_at)
          => (last'.ok /\ last.ret \in last'.ret)
       /\ (/\ last.op = "create_edge_property" /\ last.ok
           /\ IsCall({"find_edge_tags_by_content"})
           /\ last'.arg.prop = last.ret.prop
           /\ last'.arg.since <= last.ret.updated_at)
          => (last'.ok /\ last.ret \in last'.ret)]_vars


\* Every stored edge joins two stored entities
EdgesHaveEnds ==
    \A r \in edges : /\ \E n \in entities : n.entity_id = r.from
                     /\ \E n \in entities : n.entity_id = r.to

\* C30: referential integrity holds after any sequence of operations: the
\* edge_id of every stored edge tag names a stored edge, the entity_id of
\* every stored entity tag names a stored entity, and the ends of every
\* stored edge are stored entities; no tag refers to a deleted entity or
\* edge, and no tag is created for an owner that is not in the store.
C30_ReferentialIntegrity ==
    /\ \A t \in edge_tags : \E r \in edges : r.edge_id = t.edge_id
    /\ \A t \in entity_tags : \E n \in entities : n.entity_id = t.entity_id
    /\ EdgesHaveEnds


\* C31: an edge update writes only the matched edge: when create_edge takes
\* the EdgeUpdated path for edge X, every other stored edge, another edge
\* of the same label between the same pair included, keeps its id, its
\* timestamps and its relation.
C31_UpdateWritesOnlyMatched ==
    [][(IsCall(EdgeOps) /\ last'.outcome = "updated")
       => \A r \in edges : r.edge_id # last'.old.id => r \in edges']_vars

\* C32: identifiers are unique per record kind in every reachable state: no
\* two stored edges share an edge_id, no two stored tags a tag_id and no
\* two stored entities an entity_id.
C32_UniqueIds ==
    /\ \A r1 \in edges : \A r2 \in edges : r1.edge_id = r2.edge_id => r1 = r2
    /\ \A t1 \in entity_tags : \A t2 \in entity_tags : t1.tag_id = t2.tag_id => t1 = t2
    /\ \A t1 \in edge_tags : \A t2 \in edge_tags : t1.tag_id = t2.tag_id => t1 = t2
    /\ \A n1 \in entities : \A n2 \in entities : n1.entity_id = n2.entity_id => n1 = n2


\* The timestamps of one stored record before (r) and after (s) a step
TimestampsKept(r, s) ==
    /\ s.created_at = r.created_at
    /\ s.updated_at >= r.updated_at

TagOps ==
    {"create_entity_property", "create_entity_tag", "create_edge_property",
     "create_edge_tag"}

\* C33: for every stored edge and tag, across any sequence of operations,
\* created_at never changes after insertion, updated_at never decreases and
\* created_at <= updated_at; an Untouched outcome for an edge or tag changes
\* neither timestamp.
C33_Timestamps ==
    [][/\ \A r \in edges : \A s \in edges' : s.el = r.el => TimestampsKept(r, s)
       /\ \A t \in entity_tags : \A u \in entity_tags' :
              u.tag_id = t.tag_id => TimestampsKept(t, u)
       /\ \A t \in edge_tags : \A u \in edge_tags' :
              u.tag_id = t.tag_id => TimestampsKept(t, u)
       /\ \A r \in edges' \cup entity_tags' \cup edge_tags' :
              r.created_at <= r.updated_at
       /\ (IsCall(EdgeOps \cup TagOps) /\ last'.outcome = "untouched")
          => (/\ edges' = edges
              /\ entity_tags' = entity_tags
              /\ edge_tags' = edge_tags)]_vars


\* An end of the submitted edge is not in the store
MissingEnd(edge) ==
    \/ ~find_entity_by_id(edge.from.id).ok
    \/ ~find_entity_by_id(edge.to.id).ok

\* The call failed with err, stored no edge and emitted no event
FailedWithoutEffect(err) ==
    /\ ~last'.ok
    /\ last'.err = err
    /\ edges' = edges
    /\ _events_buffer' = _events_buffer

\* C34 as stated: create_relation with no explicit id whose from_entity or
\* to_entity id is not in the store fails with "no records returned",
\* creates no edge and emits no event.
C34_MissingEnd_Original ==
    [][(IsCall({"create_relation"}) /\ MissingEnd(last'.arg))
       => FailedWithoutEffect("NoRecords")]_vars

\* C34 as amended: such a call creates no edge and emits no event; it fails
\* with "no records returned" when the taxonomy gate lets it through, and
\* with the taxonomy violation when the gate rejects its triple.
C34_MissingEnd ==
    [][(IsCall({"create_relation"}) /\ MissingEnd(last'.arg))
       => IF taxonomy_rejects(last'.arg)
          THEN FailedWithoutEffect("TaxonomyViolation")
          ELSE FailedWithoutEffect("NoRecords")]_vars

\* C34 witness: with enforcement on and events enabled, a relation the
\* validator accepts was submitted from an entity that had been deleted.
C34_Witness ==
    /\ enforce_taxonomy
    /\ emit_events
    /\ last.op = "create_relation"
    /\ ~last.ok
    /\ last.err = "NoRecords"
    /\ \A n \in entities : n.entity_id # last.arg.from.id
    /\ LastEvent(_events_buffer).type = "EntityDeleted"


\* The stored tags of the owner and kind a find-by-owner call names that
\* pass its since and name filters
MatchingOwned(call) ==
    IF call.op = "find_entity_tags"
    THEN {n \in entity_tags : /\ n.entity_id = call.arg.owner
                              /\ PassesTagFilters(n, call.arg.since, call.arg.names)}
    ELSE {n \in edge_tags : /\ n.edge_id = call.arg.owner
                            /\ PassesTagFilters(n, call.arg.since, call.arg.names)}

\* C35: find-by-owner has the same empty-result outcome for both tag kinds:
\* when the owner has no stored tag that passes the since and name filters,
\* find_entity_tags and find_edge_tags both return an empty list; neither
\* fails.
C35_EmptyByOwner ==
    [][(IsCall({"find_entity_tags", "find_edge_tags"}) /\ MatchingOwned(last') = {})
       => (last'.ok /\ last'.ret = {})]_vars


\* The validator rejects the triple of the submitted edge
RejectedTriple(edge) ==
    ~valid_relationship(edge.from.asset.atype, edge.rel.label,
                        edge.rel.rtype, edge.to.asset.atype)

\* The validator accepts the triple of the stored edge r
StoredTripleValid(r) ==
    \A f \in entities : \A t \in entities :
        (f.entity_id = r.from /\ t.entity_id = r.to)
            => valid_relationship(f.asset.atype, r.rel.label, r.rel.rtype,
                                  t.asset.atype)

StoredIds ==
    {n.entity_id : n \in entities} \cup {r.edge_id : r \in edges}
    \cup {t.tag_id : t \in entity_tags \cup edge_tags}

====
